---------------------------- MODULE Spec2Model ----------------------------
(***************************************************************************)
(* A model of the quadrature engine of gauss-legendre-visualizer:          *)
(* node/weight generators, interval mapping, the evaluator, the domain     *)
(* validator and the useMultiQuadrature hook.                              *)
(*                                                                         *)
(* JavaScript numbers are IEEE-754 binary64 values.  They are modelled     *)
(* bit-exactly: a number is a sign, a 53-bit integer significand and a     *)
(* binary exponent, and +, -, *, / round to nearest, ties to even, as the  *)
(* language requires.  TLC's integers are 32 bits wide, so significands    *)
(* are kept as little-endian sequences of 14-bit limbs.                    *)
(***************************************************************************)
EXTENDS Integers, Sequences, FiniteSets, TLC

(***************************************************************************)
(* Unbounded naturals: little-endian limb sequences, no leading zero limb. *)
(***************************************************************************)
LimbBits == 14
Base == 2^LimbBits
Pow2 == [k \in 0..30 |-> 2^k]

\* x, with v evaluated first.  TLC evaluates definitions and arguments when
\* they are first used, possibly deep inside another evaluation; naming the
\* intermediate results here bounds the depth of the nesting.
After(v, x) == IF v = v THEN x ELSE x

\* the sequence f as an explicit tuple (TLC otherwise re-evaluates f's
\* defining expression at every application)
Tuple(f) == f \o <<>>

(***************************************************************************)
(* Operators are applied through Op, by name: Op("FAdd", <<x, y>>) is      *)
(* FAdd(x, y).  The argument tuple is evaluated before the operator's      *)
(* body, as the arguments of a call are in the program, and TLC's          *)
(* bookkeeping of an expression stays proportional to the size of the      *)
(* definitions it names, since every use of Op inside Op is a recursive    *)
(* use.  Op is defined after the operators it applies.                     *)
(***************************************************************************)
RECURSIVE Op(_, _)

\* the arithmetic of binary64 numbers, defined below
x (+) y == Op("FAdd", <<x, y>>)
x (-) y == Op("FSub", <<x, y>>)
x (.) y == Op("FMul", <<x, y>>)
x (/) y == Op("FDiv", <<x, y>>)
Num(n) == Op("FInt", <<n>>)

BigMax(x, y) == IF x >= y THEN x ELSE y
BigMin(x, y) == IF x <= y THEN x ELSE y

\* drop the zero limbs at the top
RECURSIVE BigTrim(_)
BigTrim(a) ==
  IF a = <<>> THEN a
  ELSE IF a[Len(a)] = 0 THEN BigTrim(SubSeq(a, 1, Len(a) - 1)) ELSE a

BigLimb(a, i) == IF i >= 1 /\ i <= Len(a) THEN a[i] ELSE 0

\* Propagate carries through the (possibly out-of-range, possibly negative)
\* limbs v[i..], with incoming carry c.  The value must be non-negative.
RECURSIVE BigCarry(_, _, _)
BigCarry(v, i, c) ==
  IF i > Len(v)
  THEN IF c = 0 THEN <<>> ELSE <<c % Base>> \o BigCarry(v, i, c \div Base)
  ELSE LET t == v[i] + c IN <<t % Base>> \o BigCarry(v, i + 1, t \div Base)

\* the natural sum_i v[i] * Base^(i-1)
BigNorm(v) == BigTrim(BigCarry(Tuple(v), 1, 0))

BigAdd(a, b) ==
  BigNorm([i \in 1..BigMax(Len(a), Len(b)) |-> BigLimb(a, i) + BigLimb(b, i)])

\* a - b, for a >= b
BigSub(a, b) == BigNorm([i \in 1..Len(a) |-> a[i] - BigLimb(b, i)])

\* a * b, where the shorter operand has at most 4 limbs, so that a column
\* sum of the schoolbook product stays below 2^31
BigMul(a, b) ==
  LET x == IF Len(a) <= Len(b) THEN a ELSE b
      y == IF Len(a) <= Len(b) THEN b ELSE a
  IN IF x = <<>> THEN <<>>
     ELSE BigNorm([k \in 1..(Len(x) + Len(y) - 1) |->
                     BigLimb(x, 1) * BigLimb(y, k) + BigLimb(x, 2) * BigLimb(y, k - 1)
                     + BigLimb(x, 3) * BigLimb(y, k - 2) + BigLimb(x, 4) * BigLimb(y, k - 3)])

\* a * d for a small d (0 <= d < 2^16)
BigMulSmall(a, d) == BigNorm([i \in 1..Len(a) |-> a[i] * d])

\* the natural number n (0 <= n < 2^31) as limbs
BigFromInt(n) == BigTrim(<<n % Base, (n \div Base) % Base, n \div (Base * Base)>>)

RECURSIVE BigCmpAt(_, _, _)
BigCmpAt(a, b, i) ==
  IF i = 0 THEN 0
  ELSE IF a[i] > b[i] THEN 1
  ELSE IF a[i] < b[i] THEN -1
  ELSE BigCmpAt(a, b, i - 1)

\* -1, 0, 1 as a < b, a = b, a > b
BigCmp(a, b) ==
  IF Len(a) > Len(b) THEN 1
  ELSE IF Len(a) < Len(b) THEN -1
  ELSE BigCmpAt(a, b, Len(a))

BitLenLimb(x) == CHOOSE k \in 0..LimbBits : (x < Pow2[k]) /\ (k = 0 \/ x >= Pow2[k - 1])

\* number of significant bits
BigLen(a) == IF a = <<>> THEN 0 ELSE LimbBits * (Len(a) - 1) + BitLenLimb(a[Len(a)])

\* a * 2^k
BigShl(a, k) ==
  IF a = <<>> THEN a
  ELSE [i \in 1..(k \div LimbBits) |-> 0] \o BigNorm([i \in 1..Len(a) |-> a[i] * Pow2[k % LimbBits]])

\* floor(a / 2^k)
BigShr(a, k) ==
  LET q == k \div LimbBits
      r == k % LimbBits
  IN IF q >= Len(a) THEN <<>>
     ELSE BigTrim(Tuple([i \in 1..(Len(a) - q) |->
            (a[i + q] \div Pow2[r]) + (BigLimb(a, i + q + 1) % Pow2[r]) * Pow2[LimbBits - r]]))

BigOdd(a) == a /= <<>> /\ a[1] % 2 = 1

\* bit k (from 0) of a
BigBit(a, k) == (BigLimb(a, k \div LimbBits + 1) \div Pow2[k % LimbBits]) % 2

\* whether a bit below bit k of a is set
BigLowNonzero(a, k) ==
  \/ \E i \in 1..(k \div LimbBits) : BigLimb(a, i) /= 0
  \/ BigLimb(a, k \div LimbBits + 1) % Pow2[k % LimbBits] /= 0

\* One quotient digit of rem / d, for rem < d * Base and d's top limb >=
\* Base/2: the estimate from the leading limbs is at most 2 too large.
BigQDigit(rem, d) ==
  LET L == Len(d)
      est == (BigLimb(rem, L + 1) * Base + BigLimb(rem, L)) \div d[L]
      q0 == BigMin(est, Base - 1)
      p0 == BigMulSmall(d, q0)
  IN IF BigCmp(p0, rem) <= 0 THEN q0
     ELSE IF BigCmp(BigSub(p0, d), rem) <= 0 THEN q0 - 1
     ELSE q0 - 2

\* Long division of the limbs n[i..Len(n)] by d, most significant first:
\* <<quotient digits (most significant first), remainder>>.  The top
\* Len(d) - 1 limbs are below d and start as the remainder.
RECURSIVE BigDivStep(_, _, _)
BigDivStep(n, d, i) ==
  IF i > Len(n) + 1 - Len(d) THEN << <<>>, BigTrim(SubSeq(n, i, Len(n))) >>
  ELSE LET p == BigDivStep(n, d, i + 1)
           r1 == BigTrim(<<n[i]>> \o p[2])
           qd == BigQDigit(r1, d)
       IN << p[1] \o <<qd>>, BigSub(r1, BigMulSmall(d, qd)) >>

\* <<floor(n / d), whether the division left a remainder>>, d > 0
BigDivMod(n, d) ==
  LET s == LimbBits - BitLenLimb(d[Len(d)])
      qr == BigDivStep(BigShl(n, s), BigShl(d, s), 1)
      q == qr[1]
  IN <<BigTrim(Tuple([i \in 1..Len(q) |-> q[Len(q) + 1 - i]])), qr[2] /= <<>> >>

(***************************************************************************)
(* IEEE-754 binary64.  A number is [k, s, m, e]: kind k ("num", "zero",    *)
(* "inf", "nan"), sign s (1 is negative), and for "num" the value          *)
(* m * 2^e with m < 2^53; m has 53 bits unless the number is subnormal,    *)
(* where e = MinExp.  Every value has exactly one representation.          *)
(***************************************************************************)
MantBits == 53
MinExp == -1074
MaxExp == 971

FNaN == [k |-> "nan", s |-> 0, m |-> <<>>, e |-> 0]
FInf(s) == [k |-> "inf", s |-> s, m |-> <<>>, e |-> 0]
FZero(s) == [k |-> "zero", s |-> s, m |-> <<>>, e |-> 0]

FPack(s, m, e) ==
  IF m = <<>> THEN FZero(s)
  ELSE IF e > MaxExp THEN FInf(s)
  ELSE [k |-> "num", s |-> s, m |-> m, e |-> e]

\* The binary64 nearest to (-1)^s * (n + t) * 2^e, ties to even, where n is
\* a natural and 0 < t < 1 if sticky, t = 0 otherwise.
FRound(s, n, e, sticky) ==
  LET L == BigLen(n)
      sh0 == L - MantBits
      sh == IF e + sh0 < MinExp THEN MinExp - e ELSE sh0
  IN IF sh <= 0 THEN FPack(s, BigShl(n, 0 - sh), e + sh)
     ELSE IF sh > L THEN FZero(s)
     ELSE LET q == BigShr(n, sh)
              up == BigBit(n, sh - 1) = 1
                    /\ (sticky \/ BigLowNonzero(n, sh - 1) \/ BigOdd(q))
              q1 == IF up THEN BigAdd(q, <<1>>) ELSE q
          IN IF BigLen(q1) > MantBits
             THEN FPack(s, BigShr(q1, 1), e + sh + 1)
             ELSE FPack(s, q1, e + sh)

\* Number(n) for an integer n of at most 31 bits
FInt(n) ==
  IF n = 0 THEN FZero(0)
  ELSE IF n < 0 THEN Op("FRound", <<1, BigFromInt(0 - n), 0, FALSE>>)
  ELSE Op("FRound", <<0, BigFromInt(n), 0, FALSE>>)

\* the binary64 nearest to (-1)^s * n / d, for naturals n, d with d > 0
FRatio(s, n, d) ==
  IF n = <<>> THEN FZero(s)
  ELSE LET k == BigMax(0, 56 + BigLen(d) - BigLen(n))
           qr == Op("BigDivMod", <<BigShl(n, k), d>>)
       IN After(qr, Op("FRound", <<s, qr[1], 0 - k, qr[2]>>))

isNaN(x) == x.k = "nan"
isFinite(x) == x.k = "num" \/ x.k = "zero"

FNeg(x) == IF x.k = "nan" THEN x ELSE [x EXCEPT !.s = 1 - x.s]
FAbs(x) == IF x.k = "nan" THEN x ELSE [x EXCEPT !.s = 0]

\* x + y for nonzero finite x, y with x.e >= y.e
FAddNum(x, y) ==
  LET d == x.e - y.e
  IN IF d > 64
     THEN IF x.s = y.s
          THEN Op("FRound", <<x.s, BigShl(x.m, 2), x.e - 2, TRUE>>)
          ELSE Op("FRound", <<x.s, BigSub(BigShl(x.m, 2), <<1>>), x.e - 2, TRUE>>)
     ELSE LET a == BigShl(x.m, d)
              c == BigCmp(a, y.m)
          IN IF x.s = y.s THEN Op("FRound", <<x.s, BigAdd(a, y.m), y.e, FALSE>>)
             ELSE IF c = 0 THEN FZero(0)
             ELSE IF c > 0 THEN Op("FRound", <<x.s, BigSub(a, y.m), y.e, FALSE>>)
             ELSE Op("FRound", <<y.s, BigSub(y.m, a), y.e, FALSE>>)

\* x + y
FAdd(x, y) ==
  IF x.k = "nan" \/ y.k = "nan" THEN FNaN
  ELSE IF x.k = "inf" THEN (IF y.k = "inf" /\ y.s /= x.s THEN FNaN ELSE x)
  ELSE IF y.k = "inf" THEN y
  ELSE IF x.k = "zero" THEN (IF y.k = "zero" THEN FZero(IF x.s = 1 /\ y.s = 1 THEN 1 ELSE 0) ELSE y)
  ELSE IF y.k = "zero" THEN x
  ELSE IF x.e >= y.e THEN Op("FAddNum", <<x, y>>) ELSE Op("FAddNum", <<y, x>>)

\* x - y
FSub(x, y) == (x (+) FNeg(y))

FXor(a, b) == IF a = b THEN 0 ELSE 1

\* x * y
FMul(x, y) ==
  IF x.k = "nan" \/ y.k = "nan" THEN FNaN
  ELSE IF x.k = "inf" \/ y.k = "inf"
       THEN (IF x.k = "zero" \/ y.k = "zero" THEN FNaN ELSE FInf(FXor(x.s, y.s)))
  ELSE IF x.k = "zero" \/ y.k = "zero" THEN FZero(FXor(x.s, y.s))
  ELSE Op("FRound", <<FXor(x.s, y.s), BigMul(x.m, y.m), x.e + y.e, FALSE>>)

\* x / y
FDiv(x, y) ==
  IF x.k = "nan" \/ y.k = "nan" THEN FNaN
  ELSE IF x.k = "inf" THEN (IF y.k = "inf" THEN FNaN ELSE FInf(FXor(x.s, y.s)))
  ELSE IF y.k = "inf" THEN FZero(FXor(x.s, y.s))
  ELSE IF y.k = "zero" THEN (IF x.k = "zero" THEN FNaN ELSE FInf(FXor(x.s, y.s)))
  ELSE IF x.k = "zero" THEN FZero(FXor(x.s, y.s))
  ELSE LET k == 56 + BigLen(y.m) - BigLen(x.m)
           qr == Op("BigDivMod", <<BigShl(x.m, k), y.m>>)
       IN After(qr, Op("FRound", <<FXor(x.s, y.s), qr[1], x.e - y.e - k, qr[2]>>))

\* -1, 0, 1 as |x| < |y|, |x| = |y|, |x| > |y|, for x, y not NaN
FCmpMag(x, y) ==
  IF x.k = "inf" THEN (IF y.k = "inf" THEN 0 ELSE 1)
  ELSE IF y.k = "inf" THEN -1
  ELSE IF x.k = "zero" THEN (IF y.k = "zero" THEN 0 ELSE -1)
  ELSE IF y.k = "zero" THEN 1
  ELSE IF x.e > y.e THEN 1
  ELSE IF x.e < y.e THEN -1
  ELSE BigCmp(x.m, y.m)

FSgn(x) == IF x.k = "zero" THEN 0 ELSE IF x.s = 1 THEN -1 ELSE 1

\* -1, 0, 1 as x < y, x = y, x > y, for x, y not NaN
FCmp(x, y) ==
  IF FSgn(x) /= FSgn(y) THEN (IF FSgn(x) < FSgn(y) THEN -1 ELSE 1)
  ELSE IF FSgn(x) >= 0 THEN FCmpMag(x, y)
  ELSE 0 - FCmpMag(x, y)

\* the comparisons of the language: all false when an operand is NaN
FLt(x, y) == x.k /= "nan" /\ y.k /= "nan" /\ FCmp(x, y) < 0
FLe(x, y) == x.k /= "nan" /\ y.k /= "nan" /\ FCmp(x, y) <= 0
FGt(x, y) == FLt(y, x)
FGe(x, y) == FLe(y, x)
FEq(x, y) == x.k /= "nan" /\ y.k /= "nan" /\ FCmp(x, y) = 0


(***************************************************************************)
(* Decimal literals of the source: the binary64 nearest to the decimal.    *)
(***************************************************************************)
\* 10^k for k <= 32, by squaring (10^16 has 4 limbs)
RECURSIVE BigPow10(_)
BigPow10(k) ==
  IF k = 0 THEN <<1>>
  ELSE LET p == BigPow10(IF k % 2 = 1 THEN k - 1 ELSE k \div 2)
       IN After(p, IF k % 2 = 1 THEN BigMulSmall(p, 10) ELSE BigMul(p, p))

\* the natural whose decimal digits are the 4-digit groups g[1..i]
RECURSIVE BigDec(_, _)
BigDec(g, i) ==
  IF i = 0 THEN <<>>
  ELSE LET p == BigDec(g, i - 1)
       IN After(p, BigAdd(BigMulSmall(p, 10000), BigFromInt(g[i])))

\* (-1)^s * (digit groups g) / 10^k
DecLit(s, g, k) ==
  LET n == BigDec(g, Len(g))
      d == BigPow10(k)
  IN After(n, After(d, Op("FRatio", <<s, n, d>>)))

\* (-1)^s * 0.aaaabbbbccccdddd
Lit(s, a, b, c, d) == Op("DecLit", <<s, <<a, b, c, d>>, 16>>)

(***************************************************************************)
(* Math.cos.  The language leaves its accuracy to the implementation; it   *)
(* is modelled by a Cody-Waite reduction of the argument by pi/2 and the   *)
(* Taylor polynomials of degree 18 and 19 on [-pi/4, pi/4], which is       *)
(* accurate to a few units in the last place for the arguments used.       *)
(***************************************************************************)
\* Math.PI = 3.141592653589793
MathPI == Op("DecLit", <<0, <<3141, 5926, 5358, 9793>>, 15>>)

\* first 33 bits of pi/2, and pi/2 minus those
PiO2Hi == Op("DecLit", <<0, <<1, 5707, 9632, 6734, 1256, 1417>>, 20>>)
PiO2Lo == Op("DecLit", <<0, <<6, 0771, 0050, 6506, 1922, 4932>>, 31>>)

BigToInt(q) == BigLimb(q, 1) + BigLimb(q, 2) * Base + BigLimb(q, 3) * Base * Base

\* Math.floor(x) as an integer, for finite |x| < 2^31
FFloorInt(x) ==
  IF x.k = "zero" THEN 0
  ELSE LET q == IF x.e >= 0 THEN BigShl(x.m, x.e) ELSE BigShr(x.m, 0 - x.e)
           exact == x.e >= 0 \/ BigShl(q, 0 - x.e) = x.m
           n == BigToInt(q)
       IN IF x.s = 0 THEN n ELSE IF exact THEN 0 - n ELSE 0 - n - 1

FOne == Num(1)

\* 1 - z/(a1) * (1 - z/(a2) * (... (1 - z/(a9)))) by Horner from the innermost
\* factor outwards, a_i = (2i-c)(2i+1-c): c = 1 gives cos(r)'s series in
\* z = r*r, c = 0 gives sin(r)/r's
RECURSIVE TaylorTail(_, _, _, _)
TaylorTail(z, i, c, acc) ==
  IF isNaN(acc) \/ i = 0 THEN acc
  ELSE TaylorTail(z, i - 1, c,
                  (FOne (-) ((z (/) Num((2 * i - c) * (2 * i + 1 - c))) (.) acc)))

CosPoly(r) == Op("TaylorTail", <<(r (.) r), 9, 1, FOne>>)
SinPoly(r) == (r (.) Op("TaylorTail", <<(r (.) r), 9, 0, FOne>>))

MathCos(x) ==
  IF ~isFinite(x) THEN FNaN
  ELSE LET k == Op("FFloorInt", <<((FAbs(x) (/) (PiO2Hi (+) PiO2Lo)) (+) (FOne (/) Num(2)))>>)
           r == ((FAbs(x) (-) (Num(k) (.) PiO2Hi)) (-) (Num(k) (.) PiO2Lo))
           q == k % 4
       IN IF q = 0 THEN CosPoly(r)
          ELSE IF q = 1 THEN FNeg(SinPoly(r))
          ELSE IF q = 2 THEN FNeg(CosPoly(r))
          ELSE SinPoly(r)

(***************************************************************************)
(* 32-bit words (as naturals below 2^32) for the seeded generator.         *)
(***************************************************************************)
W32(a) == BigTrim(<<BigLimb(a, 1), BigLimb(a, 2), BigLimb(a, 3) % 16>>)

\* bitwise xor of the k-bit numbers a and b: the low half and the high half
RECURSIVE XorBits(_, _, _)
XorBits(a, b, k) ==
  IF k = 1 THEN (a + b) % 2
  ELSE LET h == k \div 2
       IN XorBits(a % Pow2[h], b % Pow2[h], h)
          + Pow2[h] * XorBits(a \div Pow2[h], b \div Pow2[h], k - h)

\* bitwise or of the k-bit numbers a and b
RECURSIVE OrBits(_, _, _)
OrBits(a, b, k) ==
  IF k = 1 THEN (IF a + b > 0 THEN 1 ELSE 0)
  ELSE LET h == k \div 2
       IN OrBits(a % Pow2[h], b % Pow2[h], h)
          + Pow2[h] * OrBits(a \div Pow2[h], b \div Pow2[h], k - h)

\* a ^ b
WXor(a, b) == BigTrim(Tuple([i \in 1..3 |-> XorBits(BigLimb(a, i), BigLimb(b, i), LimbBits)]))
\* a | b
WOr(a, b) == BigTrim(Tuple([i \in 1..3 |-> OrBits(BigLimb(a, i), BigLimb(b, i), LimbBits)]))
\* a >>> k
WShr(a, k) == BigShr(a, k)
\* Math.imul(a, b)
Imul(a, b) == W32(BigMul(a, b))

(***************************************************************************)
(* random.js: the seeded generator and the Random method                   *)
(***************************************************************************)
\* One call of the closure mulberry32(seed) returns: the closure's seed
\* variable after the call, and the number returned.
\* mulberry32 without the final >>> 0: a signed 32-bit integer over 2^32
Mulberry32Signed(seed) ==
  LET s1 == W32(BigAdd(seed, BigFromInt(1831565813)))
      t1 == Imul(WXor(s1, WShr(s1, 15)), WOr(s1, <<1>>))
      m2 == Imul(WXor(t1, WShr(t1, 7)), WOr(t1, <<61>>))
      a2 == W32(BigAdd(t1, m2))
      t2 == WXor(a2, t1)
      u == WXor(t2, WShr(t2, 14))
      negative == BigCmp(u, BigShl(<<1>>, 31)) >= 0
  IN After(s1, After(t1, After(m2, After(a2, After(t2, After(u,
       [seed |-> s1,
        value |-> IF negative
                  THEN Op("FRatio", <<1, BigSub(BigShl(<<1>>, 32), u), BigShl(<<1>>, 32)>>)
                  ELSE Op("FRatio", <<0, u, BigShl(<<1>>, 32)>>)]))))))

Mulberry32(seed) ==
  LET s1 == W32(BigAdd(seed, BigFromInt(1831565813)))          \* seed + 0x6D2B79F5 | 0
      t1 == Imul(WXor(s1, WShr(s1, 15)), WOr(s1, <<1>>))
      m2 == Imul(WXor(t1, WShr(t1, 7)), WOr(t1, <<61>>))
      a2 == W32(BigAdd(t1, m2))
      t2 == WXor(a2, t1)
      u == WXor(t2, WShr(t2, 14))
  IN After(s1, After(t1, After(m2, After(a2, After(t2, After(u,
       [seed |-> s1, value |-> Op("FRatio", <<0, u, BigShl(<<1>>, 32)>>)]))))))

\* the first n numbers drawn from mulberry32(seed), each mapped to -1 + 2u
RECURSIVE RandomDraw(_, _)
RandomDraw(n, seed) ==
  IF n = 0 THEN <<>>
  ELSE LET r == Op("Mulberry32", <<seed>>)
       IN <<(Num(-1) (+) (Num(2) (.) r.value))>> \o RandomDraw(n - 1, r.seed)

\* Array.prototype.sort((a, b) => a - b)
RECURSIVE SortInsert(_, _)
SortInsert(sorted, x) ==
  IF sorted = <<>> THEN <<x>>
  ELSE IF FLt((x (-) (sorted[Len(sorted)])), FZero(0))
       THEN SortInsert(SubSeq(sorted, 1, Len(sorted) - 1), x) \o <<sorted[Len(sorted)]>>
       ELSE sorted \o <<x>>

\* the array left as it was filled
Unsorted(a, i) == a

RECURSIVE SortAscending(_, _)
SortAscending(a, i) ==
  IF i = 0 THEN <<>> ELSE Op("SortInsert", <<SortAscending(a, i - 1), a[i]>>)

Throw(msg, got) == [type |-> "throw", error |-> msg, got |-> got]
Return(v) == [type |-> "return", value |-> v]

DegreeError == "Degree must be between 1 and 10"

RandomGetNodesAndWeights(n, seed) ==
  IF n < 1 \/ n > 10 THEN Throw(DegreeError, n)
  ELSE LET drawn == Op("RandomDraw", <<n, BigFromInt(seed)>>)
           nodes == Op("SortAscending", <<drawn, Len(drawn)>>)
           weights == Tuple([i \in 1..n |-> (Num(2) (/) Num(n))])
       IN Return([nodes |-> nodes, weights |-> weights])

(***************************************************************************)
(* gaussLegendre.js                                                        *)
(***************************************************************************)
PRECOMPUTED == <<
  \* 1
  [nodes   |-> <<Num(0)>>,
   weights |-> <<Num(2)>>],
  \* 2
  [nodes   |-> <<Lit(1, 5773, 5026, 9189, 6257),
                Lit(0, 5773, 5026, 9189, 6257)>>,
   weights |-> <<Num(1),
                Num(1)>>],
  \* 3
  [nodes   |-> <<Lit(1, 7745, 9666, 9241, 4834),
                Num(0),
                Lit(0, 7745, 9666, 9241, 4834)>>,
   weights |-> <<Lit(0, 5555, 5555, 5555, 5556),
                Lit(0, 8888, 8888, 8888, 8888),
                Lit(0, 5555, 5555, 5555, 5556)>>],
  \* 4
  [nodes   |-> <<Lit(1, 8611, 3631, 1594, 0526),
                Lit(1, 3399, 8104, 3584, 8563),
                Lit(0, 3399, 8104, 3584, 8563),
                Lit(0, 8611, 3631, 1594, 0526)>>,
   weights |-> <<Lit(0, 3478, 5484, 5137, 4538),
                Lit(0, 6521, 4515, 4862, 5461),
                Lit(0, 6521, 4515, 4862, 5461),
                Lit(0, 3478, 5484, 5137, 4538)>>],
  \* 5
  [nodes   |-> <<Lit(1, 9061, 7984, 5938, 6640),
                Lit(1, 5384, 6931, 0105, 6831),
                Num(0),
                Lit(0, 5384, 6931, 0105, 6831),
                Lit(0, 9061, 7984, 5938, 6640)>>,
   weights |-> <<Lit(0, 2369, 2688, 5056, 1891),
                Lit(0, 4786, 2867, 0499, 3665),
                Lit(0, 5688, 8888, 8888, 8889),
                Lit(0, 4786, 2867, 0499, 3665),
                Lit(0, 2369, 2688, 5056, 1891)>>],
  \* 6
  [nodes   |-> <<Lit(1, 9324, 6951, 4203, 1521),
                Lit(1, 6612, 0938, 6466, 2645),
                Lit(1, 2386, 1918, 6083, 1969),
                Lit(0, 2386, 1918, 6083, 1969),
                Lit(0, 6612, 0938, 6466, 2645),
                Lit(0, 9324, 6951, 4203, 1521)>>,
   weights |-> <<Lit(0, 1713, 2449, 2379, 1704),
                Lit(0, 3607, 6157, 3048, 1386),
                Lit(0, 4679, 1393, 4572, 6910),
                Lit(0, 4679, 1393, 4572, 6910),
                Lit(0, 3607, 6157, 3048, 1386),
                Lit(0, 1713, 2449, 2379, 1704)>>],
  \* 7
  [nodes   |-> <<Lit(1, 9491, 0791, 2342, 7585),
                Lit(1, 7415, 3118, 5599, 3945),
                Lit(1, 4058, 4515, 1377, 3972),
                Num(0),
                Lit(0, 4058, 4515, 1377, 3972),
                Lit(0, 7415, 3118, 5599, 3945),
                Lit(0, 9491, 0791, 2342, 7585)>>,
   weights |-> <<Lit(0, 1294, 8496, 6168, 8697),
                Lit(0, 2797, 0539, 1489, 2766),
                Lit(0, 3818, 3005, 0505, 1189),
                Lit(0, 4179, 5918, 3673, 4694),
                Lit(0, 3818, 3005, 0505, 1189),
                Lit(0, 2797, 0539, 1489, 2766),
                Lit(0, 1294, 8496, 6168, 8697)>>],
  \* 8
  [nodes   |-> <<Lit(1, 9602, 8985, 6497, 5363),
                Lit(1, 7966, 6647, 7413, 6267),
                Lit(1, 5255, 3240, 9916, 3290),
                Lit(1, 1834, 3464, 2495, 6498),
                Lit(0, 1834, 3464, 2495, 6498),
                Lit(0, 5255, 3240, 9916, 3290),
                Lit(0, 7966, 6647, 7413, 6267),
                Lit(0, 9602, 8985, 6497, 5363)>>,
   weights |-> <<Lit(0, 1012, 2853, 6290, 3763),
                Lit(0, 2223, 8103, 4453, 3745),
                Lit(0, 3137, 0664, 5877, 8873),
                Lit(0, 3626, 8378, 3378, 3620),
                Lit(0, 3626, 8378, 3378, 3620),
                Lit(0, 3137, 0664, 5877, 8873),
                Lit(0, 2223, 8103, 4453, 3745),
                Lit(0, 1012, 2853, 6290, 3763)>>],
  \* 9
  [nodes   |-> <<Lit(1, 9681, 6023, 9507, 6261),
                Lit(1, 8360, 3110, 7326, 6358),
                Lit(1, 6133, 7143, 2700, 5904),
                Lit(1, 3242, 5342, 3403, 8089),
                Num(0),
                Lit(0, 3242, 5342, 3403, 8089),
                Lit(0, 6133, 7143, 2700, 5904),
                Lit(0, 8360, 3110, 7326, 6358),
                Lit(0, 9681, 6023, 9507, 6261)>>,
   weights |-> <<Lit(0, 0812, 7438, 8361, 5744),
                Lit(0, 1806, 4816, 0694, 8574),
                Lit(0, 2606, 1069, 6402, 9354),
                Lit(0, 3123, 4707, 7040, 0029),
                Lit(0, 3302, 3935, 5001, 2598),
                Lit(0, 3123, 4707, 7040, 0029),
                Lit(0, 2606, 1069, 6402, 9354),
                Lit(0, 1806, 4816, 0694, 8574),
                Lit(0, 0812, 7438, 8361, 5744)>>],
  \* 10
  [nodes   |-> <<Lit(1, 9739, 0652, 8517, 1717),
                Lit(1, 8650, 6336, 6688, 9845),
                Lit(1, 6794, 0956, 8299, 0244),
                Lit(1, 4333, 9539, 4129, 2472),
                Lit(1, 1488, 7433, 8981, 6312),
                Lit(0, 1488, 7433, 8981, 6312),
                Lit(0, 4333, 9539, 4129, 2472),
                Lit(0, 6794, 0956, 8299, 0244),
                Lit(0, 8650, 6336, 6688, 9845),
                Lit(0, 9739, 0652, 8517, 1717)>>,
   weights |-> <<Lit(0, 0666, 7134, 4308, 6881),
                Lit(0, 1494, 5134, 9150, 5806),
                Lit(0, 2190, 8636, 2515, 9820),
                Lit(0, 2692, 6671, 9309, 9963),
                Lit(0, 2955, 2422, 4714, 7529),
                Lit(0, 2955, 2422, 4714, 7529),
                Lit(0, 2692, 6671, 9309, 9963),
                Lit(0, 2190, 8636, 2515, 9820),
                Lit(0, 1494, 5134, 9150, 5806),
                Lit(0, 0666, 7134, 4308, 6881)>>]
>>

\* the generator with the nodes of the table and equal weights 2/n
GaussLegendreEqualWeights(n) ==
  IF n < 1 \/ n > 10 THEN Throw(DegreeError, n)
  ELSE Return([nodes |-> PRECOMPUTED[n].nodes,
               weights |-> Tuple([i \in 1..n |-> (Num(2) (/) Num(n))])])

GaussLegendreGetNodesAndWeights(n) ==
  IF n < 1 \/ n > 10 THEN Throw(DegreeError, n)
  ELSE Return(PRECOMPUTED[n])

(***************************************************************************)
(* equallySpaced.js                                                        *)
(***************************************************************************)
\* the generator without the check n < 1
EquallySpacedNoLowerCheck(n) ==
  IF n > 10 THEN Throw(DegreeError, n)
  ELSE IF n <= 1 THEN Return([nodes |-> <<Num(0)>>, weights |-> <<Num(2)>>])
  ELSE LET h == (Num(2) (/) Num(n - 1))
       IN Return([nodes   |-> Tuple([j \in 1..n |-> (Num(-1) (+) (Num(j - 1) (.) h))]),
                  weights |-> Tuple([j \in 1..n |->
                                 IF j - 1 = 0 \/ j - 1 = n - 1 THEN (h (/) Num(2)) ELSE h])])

\* the generator with the weight h at the two ends too
EquallySpacedEndsWhole(n) ==
  IF n < 1 \/ n > 10 THEN Throw(DegreeError, n)
  ELSE IF n = 1 THEN Return([nodes |-> <<Num(0)>>, weights |-> <<Num(2)>>])
  ELSE LET h == (Num(2) (/) Num(n - 1))
       IN Return([nodes   |-> Tuple([j \in 1..n |-> (Num(-1) (+) (Num(j - 1) (.) h))]),
                  weights |-> Tuple([j \in 1..n |-> h])])

\* the generator with its nodes starting one step after -1
EquallySpacedShifted(n) ==
  IF n < 1 \/ n > 10 THEN Throw(DegreeError, n)
  ELSE IF n = 1 THEN Return([nodes |-> <<Num(0)>>, weights |-> <<Num(2)>>])
  ELSE LET h == (Num(2) (/) Num(n - 1))
       IN Return([nodes   |-> Tuple([j \in 1..n |-> (Num(-1) (+) (Num(j) (.) h))]),
                  weights |-> Tuple([j \in 1..n |->
                                 IF j - 1 = 0 \/ j - 1 = n - 1 THEN (h (/) Num(2)) ELSE h])])

EquallySpacedGetNodesAndWeights(n) ==
  IF n < 1 \/ n > 10 THEN Throw(DegreeError, n)
  ELSE IF n = 1 THEN Return([nodes |-> <<Num(0)>>, weights |-> <<Num(2)>>])
  ELSE LET h == (Num(2) (/) Num(n - 1))
       IN Return([nodes   |-> Tuple([j \in 1..n |-> (Num(-1) (+) (Num(j - 1) (.) h))]),
                  weights |-> Tuple([j \in 1..n |->
                                 IF j - 1 = 0 \/ j - 1 = n - 1 THEN (h (/) Num(2)) ELSE h])])

(***************************************************************************)
(* chebyshev.js (Fejer's first rule)                                       *)
(***************************************************************************)
\* theta_k = (2k - 1) * Math.PI / (2n)
ChebyshevTheta(k, n) == ((Num(2 * k - 1) (.) MathPI) (/) Num(2 * n))

\* w after the terms 1..j have been subtracted from 1, in that order
RECURSIVE FejerInner(_, _)
FejerInner(theta, j) ==
  IF j = 0 THEN FOne
  ELSE (FejerInner(theta, j - 1) (-) ((Num(2) (/) Num(4 * j * j - 1)) (.) Op("MathCos", <<(Num(2 * j) (.) theta)>>)))

Reverse(a) == Tuple([i \in 1..Len(a) |-> a[Len(a) + 1 - i]])

computeFejerWeights(nodes, n) ==
  LET maxJ == (n - 1) \div 2
      weights == Tuple([k \in 1..n |->
                    ((Num(2) (/) Num(n)) (.) Op("FejerInner", <<ChebyshevTheta(k, n), maxJ>>))])
  IN Reverse(weights)

ChebyshevGetNodesAndWeights(n) ==
  IF n < 1 \/ n > 10 THEN Throw(DegreeError, n)
  ELSE LET raw == Tuple([k \in 1..n |-> Op("MathCos", <<ChebyshevTheta(k, n)>>)])
           nodes == Op("SortAscending", <<raw, Len(raw)>>)
       IN Return([nodes |-> nodes, weights |-> Op("computeFejerWeights", <<nodes, n>>)])

(***************************************************************************)
(* index.js: the registry of methods.  A method's getNodesAndWeights is a  *)
(* function of the degree (and, for Random, of the seed), tabulated over   *)
(* the degrees and seeds the model calls it with.                          *)
(***************************************************************************)
\* how far outside 1..10 the degrees of the calls reach
DegreeSlack == 1
Degrees == (1 - DegreeSlack)..(10 + DegreeSlack)

\* the seeds of the calls: zero, the default, and two seeds whose first
\* draws agree
SeedSet == {0, 42, 98, 9739}

METHOD_IDS == <<"gaussLegendre", "equallySpaced", "chebyshev", "random">>

QUADRATURE_METHODS ==
  [gaussLegendre |->
     [id |-> "gaussLegendre",
      getNodesAndWeights |-> [n \in Degrees |-> Op("GaussLegendreGetNodesAndWeights", <<n>>)]],
   equallySpaced |->
     [id |-> "equallySpaced",
      getNodesAndWeights |-> [n \in Degrees |-> Op("EquallySpacedGetNodesAndWeights", <<n>>)]],
   chebyshev |->
     [id |-> "chebyshev",
      getNodesAndWeights |-> [n \in Degrees |-> Op("ChebyshevGetNodesAndWeights", <<n>>)]],
   random |->
     [id |-> "random",
      getNodesAndWeights |->
        [n \in Degrees, seed \in SeedSet |-> Op("RandomGetNodesAndWeights", <<n, seed>>)]]]

(***************************************************************************)
(* index.js: transformNode, transformWeight, computeQuadrature.            *)
(***************************************************************************)
\* the names every object inherits from Object.prototype: the lookup
\* QUADRATURE_METHODS[methodId] finds them although the registry does not
\* define them
ObjectPrototypeKeys ==
  {"constructor", "toString", "valueOf", "hasOwnProperty", "__proto__"}

\* QUADRATURE_METHODS[methodId]
MethodLookup(methodId) ==
  IF methodId \in DOMAIN QUADRATURE_METHODS THEN [kind |-> "method", id |-> methodId]
  ELSE IF methodId \in ObjectPrototypeKeys THEN [kind |-> "inherited", id |-> methodId]
  ELSE [kind |-> "undefined", id |-> methodId]

UnknownMethodError == "Unknown quadrature method"
\* the TypeError of calling a property that is not a function
NotAFunctionError == "method.getNodesAndWeights is not a function"

\* the options argument: has tells whether options.seed is a number, null,
\* undefined, or options was not passed at all
Options(has, seed) == [has |-> has, seed |-> seed]
NoOptions == Options("omitted", 0)

\* options.seed || 42
OptionsSeedOr(options) ==
  IF options.has = "number" /\ options.seed /= 0 THEN options.seed ELSE 42

\* options.seed ?? 42
OptionsSeed(options) == IF options.has = "number" THEN options.seed ELSE 42

\* the monomials x^0 .. x^19 by name
Monomials ==
  <<"x^0", "x^1", "x^2", "x^3", "x^4", "x^5", "x^6", "x^7", "x^8", "x^9", "x^10", "x^11",
    "x^12", "x^13", "x^14", "x^15", "x^16", "x^17", "x^18", "x^19">>
IsMonomial(f) == \E i \in 1..Len(Monomials) : Monomials[i] = f
MonomialDegree(f) == (CHOOSE i \in 1..Len(Monomials) : Monomials[i] = f) - 1

\* x^k by k multiplications
RECURSIVE FPow(_, _)
FPow(x, k) == IF k = 0 THEN Num(1) ELSE (FPow(x, k - 1) (.) x)

\* the functions f the callers pass, by name
ApplyF(f, x) ==
  CASE f = "x"      -> Return(x)
    [] f = "affine" -> Return(((Num(3) (.) x) (+) Num(1)))
    [] IsMonomial(f) -> Return(FPow(x, MonomialDegree(f)))
    [] f = "square" -> Return((x (.) x))
    [] f = "cube"   -> Return(((x (.) x) (.) x))
    [] f = "recip"  -> Return((Num(1) (/) x))
    [] f = "nan"    -> Return(FNaN)
    [] f = "ratio"  -> Return((x (/) x))
    [] f = "step"   -> Return(IF FLt(x, Num(0)) THEN Num(0) ELSE Num(1))
    [] f = "throws" -> Throw("f failed", "f")
    [] f = "spike"  -> Return(IF FEq(x, (Num(1) (/) Num(2))) THEN Num(1000000000) ELSE Num(2))
    [] f = "domain" -> Return(IF FLt(x, Num(0)) THEN FNaN
                              ELSE IF FEq(x, Num(0)) THEN FInf(0) ELSE Num(1))
    [] f = "throwsNeg"    -> IF FLt(x, Num(0)) THEN Throw("f failed", "f") ELSE Return(Num(1))
    [] f = "throwsAtZero" -> IF FEq(x, Num(0)) THEN Throw("f failed", "f") ELSE Return(x)
    [] f = "throwsTiny"   -> IF FGt(x, Num(0)) /\ FLt(x, Op("DecLit", <<0, <<1>>, 6>>))
                             THEN Throw("f failed", "f") ELSE Return(x)

\* transformNode without the midpoint
transformNodeNoMidpoint(xi, a, b) == (((b (-) a) (/) Num(2)) (.) xi)

transformNode(xi, a, b) == ((((b (-) a) (/) Num(2)) (.) xi) (+) ((a (+) b) (/) Num(2)))

\* transformWeight without the half width
transformWeightUnscaled(wi, a, b) == wi

transformWeight(wi, a, b) == (((b (-) a) (/) Num(2)) (.) wi)

\* the loop of computeQuadrature with a check that throws when f's value is
\* not finite
RECURSIVE QuadLoopGuarded(_, _, _, _, _, _, _)
QuadLoopGuarded(f, a, b, set, n, i, acc) ==
  IF i > n
  THEN [outcome |-> Return([integral |-> acc.integral, details |-> acc.details]),
        evaluated |-> acc.evaluated]
  ELSE LET xi == set.nodes[i]
           wi == set.weights[i]
           x == Op("transformNode", <<xi, a, b>>)
           w == Op("transformWeight", <<wi, a, b>>)
           fVal == Op("ApplyF", <<f, x>>)
       IN IF fVal.type = "throw"
          THEN [outcome |-> fVal, evaluated |-> Append(acc.evaluated, x)]
          ELSE IF ~isFinite(fVal.value)
          THEN [outcome |-> Throw("f is not finite", "f"),
                evaluated |-> Append(acc.evaluated, x)]
          ELSE LET contribution == (w (.) fVal.value)
               IN QuadLoopGuarded(f, a, b, set, n, i + 1,
                    [integral |-> (acc.integral (+) contribution),
                     details |-> Append(acc.details,
                       [index |-> i, originalNode |-> xi, transformedNode |-> x,
                        originalWeight |-> wi, transformedWeight |-> w,
                        fValue |-> fVal.value, contribution |-> contribution]),
                     evaluated |-> Append(acc.evaluated, x)])

\* the loop of computeQuadrature from its i-th round on; acc holds integral,
\* details and the arguments f was evaluated at so far
RECURSIVE QuadLoop(_, _, _, _, _, _, _)
QuadLoop(f, a, b, set, n, i, acc) ==
  IF i > n
  THEN [outcome |-> Return([integral |-> acc.integral, details |-> acc.details]),
        evaluated |-> acc.evaluated]
  ELSE LET xi == set.nodes[i]
           wi == set.weights[i]
           x == Op("transformNode", <<xi, a, b>>)
           w == Op("transformWeight", <<wi, a, b>>)
           fVal == Op("ApplyF", <<f, x>>)
       IN IF fVal.type = "throw"
          THEN [outcome |-> fVal, evaluated |-> Append(acc.evaluated, x)]
          ELSE LET contribution == (w (.) fVal.value)
               IN QuadLoop(f, a, b, set, n, i + 1,
                    [integral |-> (acc.integral (+) contribution),
                     details |-> Append(acc.details,
                       [index |-> i, originalNode |-> xi, transformedNode |-> x,
                        originalWeight |-> wi, transformedWeight |-> w,
                        fValue |-> fVal.value, contribution |-> contribution]),
                     evaluated |-> Append(acc.evaluated, x)])

\* a call's outcome together with the generator calls it made and the
\* arguments it evaluated f at, in order
Ran(outcome, generated, evaluated) ==
  [outcome |-> outcome, generated |-> generated, evaluated |-> evaluated]

computeQuadrature(methodId, f, a, b, n, options) ==
  LET method == MethodLookup(methodId)
  IN IF method.kind = "undefined"
     THEN Ran(Throw(UnknownMethodError, methodId), <<>>, <<>>)
     ELSE IF method.kind = "inherited"
     THEN Ran(Throw(NotAFunctionError, methodId), <<>>, <<>>)
     ELSE LET args == IF methodId = "random" THEN <<n, Op("OptionsSeed", <<options>>)>> ELSE <<n>>
              got == IF methodId = "random"
                     THEN QUADRATURE_METHODS.random.getNodesAndWeights[args[1], args[2]]
                     ELSE QUADRATURE_METHODS[methodId].getNodesAndWeights[args[1]]
              called == <<[methodId |-> methodId, args |-> args]>>
          IN IF got.type = "throw"
             THEN Ran(got, called, <<>>)
             ELSE LET run == Op("QuadLoop", <<f, a, b, got.value, n, 1,
                                  [integral |-> Num(0), details |-> <<>>, evaluated |-> <<>>]>>)
                  IN Ran(run.outcome, called, run.evaluated)

(***************************************************************************)
(* index.js: computeReferenceValue, adaptiveSimpson, adaptiveSimpsonRecurse*)
(***************************************************************************)
\* the literals 1e-14 and 30 of computeReferenceValue
ReferenceTol == Op("DecLit", <<0, <<1>>, 14>>)
ReferenceMaxDepth == 30

\* Math.abs(delta) <= 15 * tol, without the cap on the depth
SimpsonAcceptUncapped(delta, tol, maxDepth, depth) ==
  FLe(FAbs(delta), (Num(15) (.) tol))

\* depth >= maxDepth || Math.abs(delta) < 0
SimpsonAcceptNever(delta, tol, maxDepth, depth) ==
  depth >= maxDepth \/ FLt(FAbs(delta), Num(0))

\* the tolerance handed to both halves: tol instead of tol / 2
SameTol(tol) == tol

\* the tolerance handed to both halves: tol / 2
HalfTol(tol) == (tol (/) Num(2))

\* depth >= maxDepth || Math.abs(delta) <= 15 * tol
SimpsonAccept(delta, tol, maxDepth, depth) ==
  depth >= maxDepth \/ FLe(FAbs(delta), (Num(15) (.) tol))

\* a call of adaptiveSimpsonRecurse up to its test: the two evaluations of
\* f, the two halves' Simpson values, and the value returned when the
\* sub-interval is accepted
SimpsonNode(f, a, b, fa, fb, fm, whole, tol, maxDepth, depth) ==
  LET m == ((a (+) b) (/) Num(2))
      lm == ((a (+) m) (/) Num(2))
      rm == ((m (+) b) (/) Num(2))
      flm == Op("ApplyF", <<f, lm>>)
      frm == Op("ApplyF", <<f, rm>>)
  IN IF flm.type = "throw" THEN [type |-> "throw", error |-> flm.error, evals |-> 1]
     ELSE IF frm.type = "throw" THEN [type |-> "throw", error |-> frm.error, evals |-> 2]
     ELSE LET left == (((m (-) a) (/) Num(6)) (.) ((fa (+) (Num(4) (.) flm.value)) (+) fm))
              right == (((b (-) m) (/) Num(6)) (.) ((fm (+) (Num(4) (.) frm.value)) (+) fb))
              combined == (left (+) right)
              delta == (combined (-) whole)
              accept == Op("SimpsonAccept", <<delta, tol, maxDepth, depth>>)
          IN [type |-> "node", m |-> m, flm |-> flm.value, frm |-> frm.value,
              left |-> left, right |-> right, whole |-> whole, combined |-> combined,
              delta |-> delta, accept |-> accept,
              value |-> IF accept THEN (combined (+) (delta (/) Num(15))) ELSE FNaN]

\* the value adaptiveSimpsonRecurse returns (or what it throws) and the
\* number of evaluations of f it makes
RECURSIVE adaptiveSimpsonRecurse(_, _, _, _, _, _, _, _, _, _)
adaptiveSimpsonRecurse(f, a, b, fa, fb, fm, whole, tol, maxDepth, depth) ==
  LET node == Op("SimpsonNode", <<f, a, b, fa, fb, fm, whole, tol, maxDepth, depth>>)
  IN IF node.type = "throw" THEN node
     ELSE IF node.accept THEN [type |-> "return", value |-> node.value, evals |-> 2]
     ELSE LET l == adaptiveSimpsonRecurse(f, a, node.m, fa, fm, node.flm, node.left,
                                          Op("HalfTol", <<tol>>), maxDepth, depth + 1)
          IN IF l.type = "throw" THEN [l EXCEPT !.evals = @ + 2]
             ELSE LET r == adaptiveSimpsonRecurse(f, node.m, b, fm, fb, node.frm, node.right,
                                                  Op("HalfTol", <<tol>>), maxDepth, depth + 1)
                  IN IF r.type = "throw" THEN [r EXCEPT !.evals = @ + 2 + l.evals]
                     ELSE [type |-> "return", value |-> (l.value (+) r.value),
                           evals |-> 2 + l.evals + r.evals]

\* adaptiveSimpson before it enters the recursion: f(a), f(b), f(m), whole
SimpsonStart(f, a, b) ==
  LET fa == Op("ApplyF", <<f, a>>)
      fb == Op("ApplyF", <<f, b>>)
      m == ((a (+) b) (/) Num(2))
      fm == Op("ApplyF", <<f, m>>)
  IN IF fa.type = "throw" THEN [type |-> "throw", error |-> fa.error, evals |-> 1]
     ELSE IF fb.type = "throw" THEN [type |-> "throw", error |-> fb.error, evals |-> 2]
     ELSE IF fm.type = "throw" THEN [type |-> "throw", error |-> fm.error, evals |-> 3]
     ELSE [type |-> "start", fa |-> fa.value, fb |-> fb.value, fm |-> fm.value,
           whole |-> (((b (-) a) (/) Num(6)) (.) ((fa.value (+) (Num(4) (.) fm.value)) (+) fb.value)),
           evals |-> 3]

adaptiveSimpson(f, a, b, tol, maxDepth) ==
  LET st == Op("SimpsonStart", <<f, a, b>>)
  IN IF st.type = "throw" THEN st
     ELSE LET run == Op("adaptiveSimpsonRecurse",
                        <<f, a, b, st.fa, st.fb, st.fm, st.whole, tol, maxDepth, 0>>)
          IN [run EXCEPT !.evals = @ + 3]

computeReferenceValue(f, a, b) ==
  Op("adaptiveSimpson", <<f, a, b, ReferenceTol, ReferenceMaxDepth>>)

(***************************************************************************)
(* index.js: computeConvergenceData.                                       *)
(***************************************************************************)
\* result.integral - referenceValue, without Math.abs
ConvErrorSigned(integral, referenceValue) == (integral (-) referenceValue)

\* Math.abs(result.integral - referenceValue)
ConvError(integral, referenceValue) == FAbs((integral (-) referenceValue))

\* the series of the method before it kept for the next method
KeepSeries(points) == points

\* data[methodId] = []
FreshSeries(points) == <<>>

\* one round of the inner loop: computeQuadrature for methodId and n, and
\* the point pushed to data[methodId]
ConvRound(methodId, f, a, b, n, randomSeed, referenceValue) ==
  LET options == IF methodId = "random" THEN Options("number", randomSeed) ELSE NoOptions
      result == Op("computeQuadrature", <<methodId, f, a, b, n, options>>)
  IN IF result.outcome.type = "throw" THEN result.outcome
     ELSE Return([n |-> n, integral |-> result.outcome.value.integral,
                  error |-> Op("ConvError", <<result.outcome.value.integral, referenceValue>>)])

(***************************************************************************)
(* index.js: validateFunctionOnInterval.                                   *)
(***************************************************************************)
numSamples == 200

\* const x = a + (b - a) * i / numSamples
SampleX(a, b, i) == (a (+) (((b (-) a) (.) Num(i)) (/) Num(numSamples)))

\* the catch of the sampling loop replaced by values.push(0)
CatchSampleAsZero(outcome) == IF outcome.type = "throw" THEN FZero(0) ELSE outcome.value

\* try { values.push(f(x)) } catch { values.push(NaN) }
CatchSample(outcome) == IF outcome.type = "throw" THEN FNaN ELSE outcome.value

\* one round of the sampling loop: the value pushed, and whether f threw
SampleRound(f, a, b, i) ==
  LET outcome == Op("ApplyF", <<f, Op("SampleX", <<a, b, i>>)>>)
  IN [y |-> Op("CatchSample", <<outcome>>), threw |-> outcome.type = "throw"]

\* the four messages of a failed validation; the interval is printed in each
Message(text, a, b) == [text |-> text, a |-> a, b |-> b]
LargePortionText == "Function is undefined on a large portion of the interval"
AsymptotesText == "Function has asymptotes or singularities"
AppearsAsymptoteText == "Function appears to have an asymptote"
SingularityText == "Function has a singularity or asymptote"
BoundaryNonFiniteText == "Function is undefined or infinite at the boundary"
BoundaryThrowText == "Function cannot be evaluated at the boundary"
BoundaryTexts == {BoundaryNonFiniteText, BoundaryThrowText}

Invalid(text, a, b) == [valid |-> FALSE, message |-> Message(text, a, b)]
Valid == [valid |-> TRUE]

\* the two tests of the scan on one pair of adjacent samples
PairRule(prev, curr) ==
  IF ~isFinite(prev) \/ ~isFinite(curr) THEN "continue"
  ELSE IF /\ FLt(FMul(prev, curr), FZero(0))
          /\ FGt(FAbs(prev), FInt(50))
          /\ FGt(FAbs(curr), FInt(50)) THEN AppearsAsymptoteText
  ELSE IF /\ FGt(FAbs(prev), FInt(1))
          /\ FGt(FAbs(curr), FInt(1))
          /\ FGt(IF FGt(FAbs(curr), FAbs(prev)) THEN FDiv(FAbs(curr), FAbs(prev))
                 ELSE FDiv(FAbs(prev), FAbs(curr)), FInt(1000000)) THEN SingularityText
  ELSE "continue"

\* a scan in which no pair fails a test
ScanNothing(values) == "continue"

\* the scan over values[1..length-1]: the message of the first pair that
\* fails a test, "continue" when none does
ScanPairs(values) ==
  LET rules == Tuple([i \in 1..(Len(values) - 1) |-> Op("PairRule", <<values[i], values[i + 1]>>)])
      fired == {i \in 1..Len(rules) : rules[i] /= "continue"}
  IN IF fired = {} THEN "continue"
     ELSE rules[CHOOSE i \in fired : \A j \in fired : i <= j]

\* const eps = (b - a) * 1e-10; const boundaryPoints = [a, a + eps, b - eps, b]
BoundaryPoints(a, b) ==
  LET eps == ((b (-) a) (.) Op("DecLit", <<0, <<1>>, 10>>))
  IN <<a, (a (+) eps), (b (-) eps), b>>

\* one boundary point: the text returned, "continue" when f is finite there
BoundaryRule(outcome) ==
  IF outcome.type = "throw" THEN BoundaryThrowText
  ELSE IF ~isFinite(outcome.value) THEN BoundaryNonFiniteText
  ELSE "continue"

\* the loop over the boundary points, left at the first one that fails
BoundaryCheck(f, a, b) ==
  LET points == Op("BoundaryPoints", <<a, b>>)
      rules == Tuple([i \in 1..4 |-> Op("BoundaryRule", <<Op("ApplyF", <<f, points[i]>>)>>)])
      fired == {i \in 1..4 : rules[i] /= "continue"}
  IN IF fired = {} THEN "continue"
     ELSE rules[CHOOSE i \in fired : \A j \in fired : i <= j]

\* the rules with the test of infCount before the test of nanRatio
ValidateSamplesInfFirst(f, a, b, values, nanCount, infCount) ==
  IF infCount > 0 THEN Invalid(AsymptotesText, a, b)
  ELSE IF FGt(FDiv(FInt(nanCount), FInt(numSamples + 1)), DecLit(0, <<1>>, 1))
  THEN Invalid(LargePortionText, a, b)
  ELSE LET scan == Op("ScanPairs", <<values>>)
       IN IF scan /= "continue" THEN Invalid(scan, a, b)
          ELSE LET boundary == Op("BoundaryCheck", <<f, a, b>>)
               IN IF boundary /= "continue" THEN Invalid(boundary, a, b) ELSE Valid

\* validateFunctionOnInterval after its sampling loop
ValidateSamples(f, a, b, values, nanCount, infCount) ==
  IF FGt(FDiv(FInt(nanCount), FInt(numSamples + 1)), DecLit(0, <<1>>, 1))
  THEN Invalid(LargePortionText, a, b)
  ELSE IF infCount > 0 THEN Invalid(AsymptotesText, a, b)
  ELSE LET scan == Op("ScanPairs", <<values>>)
       IN IF scan /= "continue" THEN Invalid(scan, a, b)
          ELSE LET boundary == Op("BoundaryCheck", <<f, a, b>>)
               IN IF boundary /= "continue" THEN Invalid(boundary, a, b) ELSE Valid

(***************************************************************************)
(* useMultiQuadrature: toggleMethod.                                       *)
(***************************************************************************)
Includes(list, x) == \E i \in 1..Len(list) : list[i] = x

\* list.filter(id => keep[id]) for a predicate given as a set
FilterIn(list, kept) == SelectSeq(list, LAMBDA id : id \in kept)

\* the updater of toggleMethod without its test of prev.length
ToggleUpdaterUnguarded(prev, methodId, activeCaptured) ==
  IF Includes(prev, methodId)
  THEN LET next == SelectSeq(prev, LAMBDA id : id /= methodId)
       IN [next |-> next,
           setActiveMethod |-> IF methodId = activeCaptured /\ next /= <<>>
                               THEN <<next[1]>> ELSE <<>>]
  ELSE [next |-> FilterIn(METHOD_IDS, {prev[i] : i \in 1..Len(prev)} \cup {methodId}),
        setActiveMethod |-> <<>>]

\* the updater toggleMethod passes to setEnabledMethods, run on prev by a
\* closure that captured activeCaptured: the next list, and the argument of
\* setActiveMethod when it is called
ToggleUpdater(prev, methodId, activeCaptured) ==
  IF Includes(prev, methodId)
  THEN IF Len(prev) <= 1
       THEN [next |-> prev, setActiveMethod |-> <<>>]
       ELSE LET next == SelectSeq(prev, LAMBDA id : id /= methodId)
            IN [next |-> next,
                setActiveMethod |-> IF methodId = activeCaptured THEN <<next[1]>> ELSE <<>>]
  ELSE [next |-> FilterIn(METHOD_IDS, {prev[i] : i \in 1..Len(prev)} \cup {methodId}),
        setActiveMethod |-> <<>>]

\* the queued updaters run in order on the state st = [enabledMethods,
\* activeMethod]; all were made by the closure that captured activeCaptured
RECURSIVE RunToggles(_, _, _)
RunToggles(st, queue, activeCaptured) ==
  IF queue = <<>> THEN st
  ELSE LET u == ToggleUpdater(st.enabledMethods, Head(queue), activeCaptured)
       IN RunToggles([enabledMethods |-> u.next,
                      activeMethod |-> IF u.setActiveMethod = <<>> THEN st.activeMethod
                                       ELSE u.setActiveMethod[1]],
                     Tail(queue), activeCaptured)

(***************************************************************************)
(* Graph: the debounced report of a dragged interval.                      *)
(***************************************************************************)
\* setTimeout(..., 150)
DebounceMs == 150

\* clearTimeout left out: the timers stay as they are
KeepTimers(timers, ref) == timers

\* if (dragTimeoutRef.current) clearTimeout(dragTimeoutRef.current); ref is 0
\* for null
CancelTimer(timers, ref) == {t \in timers : t.id /= ref}

\* newA < newB - 0.05
DragAccepts(newA, newB) == FLt(newA, (newB (-) Op("DecLit", <<0, <<5>>, 2>>)))

(***************************************************************************)
(* The hooks useMultiQuadrature and useQuadrature: parsing of the inputs   *)
(* of their setters, and what their useMemo cells compute.                 *)
(***************************************************************************)
Digits == <<"0", "1", "2", "3", "4", "5", "6", "7", "8", "9">>
IsDigit(c) == \E d \in 1..10 : Digits[d] = c
DigitValue(c) == (CHOOSE d \in 1..10 : Digits[d] = c) - 1

\* text without its leading white space
RECURSIVE TrimStart(_)
TrimStart(text) ==
  IF text /= <<>> /\ Head(text) = " " THEN TrimStart(Tail(text)) ELSE text

\* the longest prefix of text made of digits
RECURSIVE DigitPrefix(_)
DigitPrefix(text) ==
  IF text /= <<>> /\ IsDigit(Head(text)) THEN <<Head(text)>> \o DigitPrefix(Tail(text)) ELSE <<>>

\* the number that a sequence of digits writes in base 10
RECURSIVE DigitsValue(_)
DigitsValue(digits) ==
  IF digits = <<>> THEN 0
  ELSE 10 * DigitsValue(SubSeq(digits, 1, Len(digits) - 1)) + DigitValue(digits[Len(digits)])

\* the sign a text begins with, and the text after it
Signed(text) ==
  IF text /= <<>> /\ Head(text) \in {"+", "-"}
  THEN [negative |-> Head(text) = "-", rest |-> Tail(text)]
  ELSE [negative |-> FALSE, rest |-> text]

\* the value NaN of parseInt
NotANumber == [nan |-> TRUE, value |-> 0]

\* parseInt(text) in base 10: NotANumber or an integer
parseInt(text) ==
  LET signed == Signed(TrimStart(text))
      digits == DigitPrefix(signed.rest)
  IN IF digits = <<>> THEN NotANumber
     ELSE [nan |-> FALSE,
           value |-> IF signed.negative THEN 0 - DigitsValue(digits) ELSE DigitsValue(digits)]

\* parseFloat(text) for a text with a decimal point at most: NaN or a Number
parseFloat(text) ==
  LET signed == Signed(TrimStart(text))
      int == DigitPrefix(signed.rest)
      after == SubSeq(signed.rest, Len(int) + 1, Len(signed.rest))
      frac == IF after /= <<>> /\ Head(after) = "." THEN DigitPrefix(Tail(after)) ELSE <<>>
      n == DigitsValue(int \o frac)
  IN IF int \o frac = <<>> THEN FNaN
     ELSE Op("DecLit", <<IF signed.negative THEN 1 ELSE 0, <<n \div 10000, n % 10000>>,
                         Len(frac)>>)

\* parseInt(n) || 1
ParsedOrOne(text) ==
  LET parsed == parseInt(text)
  IN IF parsed.nan \/ parsed.value = 0 THEN 1 ELSE parsed.value

\* updateDegree without Math.max and Math.min
updateDegreeUnclamped(text) == ParsedOrOne(text)

\* updateDegree: Math.max(1, Math.min(10, parseInt(n) || 1))
updateDegree(text) == BigMax(1, BigMin(10, ParsedOrOne(text)))

\* reshuffleRandom: Math.floor(Math.random() * 100) + 1 for the value random
\* that Math.random() returns
ReshuffledSeed(random) == Op("FFloorInt", <<(random (.) Num(100))>>) + 1

\* parseFunction: the empty expression fails, the others are compiled; the
\* compiled function is named as ApplyF names it
parseFunction(expression) ==
  IF expression = "" THEN [success |-> FALSE, error |-> "Expression cannot be empty"]
  ELSE CASE expression = "x" -> [success |-> TRUE, fn |-> "x"]
         [] expression = "1/x" -> [success |-> TRUE, fn |-> "recip"]
         [] expression = "x +" -> [success |-> FALSE, error |-> "Failed to parse expression"]

\* the values of f at the numSamples + 1 sample points
SampleValues(f, a, b) ==
  Tuple([i \in 1..(numSamples + 1) |-> Op("SampleRound", <<f, a, b, i - 1>>).y])

\* validateFunctionOnInterval as one call, given the values at the samples
ValidateValues(f, a, b, values) ==
  Op("ValidateSamples",
     <<f, a, b, values,
       Cardinality({i \in 1..Len(values) : isNaN(values[i])}),
       Cardinality({i \in 1..Len(values) : ~isNaN(values[i]) /\ ~isFinite(values[i])})>>)

\* validateFunctionOnInterval as one call
validateFunctionOnInterval(f, a, b) ==
  CHOOSE result \in {ValidateValues(f, a, b, values) : values \in {SampleValues(f, a, b)}} :
    TRUE

\* the intervals the hooks can hold with intervalA < intervalB, and the
\* result of validateFunctionOnInterval for the compiled functions on them
HookIntervals == <<<<Num(0), Num(1)>>, <<Num(0), Num(2)>>, <<Num(1), Num(2)>>>>
HookFunctions == <<"x", "recip">>
HookValidations ==
  Tuple([i \in 1..Len(HookFunctions) |->
    Tuple([j \in 1..Len(HookIntervals) |->
      Op("validateFunctionOnInterval",
         <<HookFunctions[i], HookIntervals[j][1], HookIntervals[j][2]>>)])])

HookValidate(f, a, b) ==
  IF \E i \in 1..Len(HookFunctions) : \E j \in 1..Len(HookIntervals) :
       HookFunctions[i] = f /\ HookIntervals[j] = <<a, b>>
  THEN LET i == CHOOSE i \in 1..Len(HookFunctions) : HookFunctions[i] = f
           j == CHOOSE j \in 1..Len(HookIntervals) : HookIntervals[j] = <<a, b>>
       IN HookValidations[i][j]
  ELSE Op("validateFunctionOnInterval", <<f, a, b>>)

\* no call was made, no render happened
NoCall == [type |-> "none"]

\* the value null
Null == [type |-> "null"]

\* the error useQuadrature reports for an interval with a >= b
InvalidIntervalError == "Lower bound must be less than upper bound"

\* the value of a call of a pure function of the library: the call itself
Called(name, args) == [type |-> "value", call |-> name, args |-> args]

\* the dependency lists of the useMemo cells
ValidationDeps == {"parsedFunction", "intervalA", "intervalB", "intervalValid"}
AllResultsDepsNoSeed ==
  {"parsedFunction", "intervalA", "intervalB", "degree", "enabledMethods", "intervalValid"}
AllResultsDeps ==
  {"parsedFunction", "intervalA", "intervalB", "degree", "enabledMethods", "randomSeed",
   "intervalValid"}
ReferenceDeps ==
  {"parsedFunction", "intervalA", "intervalB", "intervalValid", "functionValidation"}
ConvergenceDeps ==
  {"parsedFunction", "intervalA", "intervalB", "enabledMethods", "randomSeed",
   "intervalValid", "functionValidation"}
ResultsDeps == {"parsedFunction", "intervalA", "intervalB", "degree", "expression"}

\* the guard the cells of useMultiQuadrature share
HookUsable(parsed, a, b) == parsed.success /\ FLt(a, b)

\* what the functionValidation cell computes
ComputeValidation(parsed, a, b) ==
  IF ~HookUsable(parsed, a, b) THEN Valid ELSE HookValidate(parsed.fn, a, b)

\* computeQuadrature throws for this method and degree
QuadratureThrows(methodId, n) == MethodLookup(methodId).kind /= "method" \/ n < 1 \/ n > 10

\* what the allResults cell computes
ComputeAllResults(parsed, a, b, degree, enabledMethods, randomSeed, validation) ==
  IF ~HookUsable(parsed, a, b) \/ ~validation.valid THEN Null
  ELSE IF \E i \in 1..Len(enabledMethods) : QuadratureThrows(enabledMethods[i], degree)
  THEN Null
  ELSE [type |-> "value",
        results |->
          [i \in 1..Len(enabledMethods) |->
             [methodId |-> enabledMethods[i],
              result |-> Called("computeQuadrature",
                                <<enabledMethods[i], parsed.fn, a, b, degree,
                                  IF enabledMethods[i] = "random"
                                  THEN Options("number", randomSeed) ELSE NoOptions>>)]]]

\* the referenceValue cell without its test of functionValidation.valid
ComputeReferenceUngated(parsed, a, b, validation) ==
  IF ~HookUsable(parsed, a, b) THEN Null
  ELSE Called("computeReferenceValue", <<parsed.fn, a, b>>)

\* what the referenceValue cell computes
ComputeReference(parsed, a, b, validation) ==
  IF ~HookUsable(parsed, a, b) \/ ~validation.valid THEN Null
  ELSE Called("computeReferenceValue", <<parsed.fn, a, b>>)

\* what the convergenceData cell computes
ComputeConvergence(parsed, a, b, enabledMethods, randomSeed, validation) ==
  IF ~HookUsable(parsed, a, b) \/ ~validation.valid THEN Null
  ELSE IF \E i \in 1..Len(enabledMethods) : \E n \in 1..10 :
            QuadratureThrows(enabledMethods[i], n)
  THEN Null
  ELSE Called("computeConvergenceData", <<parsed.fn, a, b, enabledMethods, randomSeed>>)

\* what the results cell of useQuadrature computes
ComputeResults(parsed, a, b, degree, expression) ==
  IF ~parsed.success THEN Null
  ELSE IF FGe(a, b) THEN [type |-> "error", error |-> InvalidIntervalError]
  ELSE [type |-> "value",
        quadResult |-> Called("gaussLegendre.computeQuadrature", <<parsed.fn, a, b, degree>>),
        errorEstimate |-> IF degree < 10
                          THEN Called("estimateError", <<parsed.fn, a, b, degree>>)
                          ELSE Null,
        expression |-> expression]

\* useMemo: the cell computes again when one of its dependencies changed
Memo(deps, changed, old, new) == IF deps \cap changed /= {} THEN new ELSE old

\* the number of calls of computeReferenceValue a render makes: one by the
\* referenceValue cell and one inside computeConvergenceData
ReferenceRuns(changed, parsed, a, b, validation) ==
  IF ~HookUsable(parsed, a, b) \/ ~validation.valid THEN 0
  ELSE (IF ReferenceDeps \cap changed /= {} THEN 1 ELSE 0)
       + (IF ConvergenceDeps \cap changed /= {} THEN 1 ELSE 0)

\* isValid: parsedFunction.success && intervalValid &&
\* functionValidation.valid && allResults !== null
IsValid(st) ==
  /\ st.parsedFunction.success
  /\ FLt(st.intervalA, st.intervalB)
  /\ st.functionValidation.valid
  /\ st.allResults /= Null

\* the degrees the generators are called with by the cells of a state
GeneratorDegrees(st) ==
  (IF st.allResults /= Null THEN {st.degree} ELSE {})
  \cup (IF st.convergenceData /= Null THEN 1..10 ELSE {})
  \cup (IF st.results.type = "value"
        THEN {st.degree} \cup (IF st.degree < 10 THEN {st.degree, st.degree + 1} ELSE {})
        ELSE {})

\* the names that changed for the cells of a render: changed0 names the
\* values of useState that differ from the render before (all of them at the
\* first render), and parsedFunction and intervalValid follow from them
RenderChanged(core, changed0, old) ==
  changed0
  \cup (IF "expression" \in changed0 THEN {"parsedFunction"} ELSE {})
  \cup (IF old = NoCall \/ (FLt(old.intervalA, old.intervalB)
                            /= FLt(core.intervalA, core.intervalB))
        THEN {"intervalValid"} ELSE {})

\* the parsedFunction cell of a render
RenderParsed(core, changed0, old) ==
  IF "expression" \in changed0 THEN parseFunction(core.expression) ELSE old.parsedFunction

\* the functionValidation cell of a render
RenderValidation(core, changed0, parsed, old) ==
  Memo(ValidationDeps, RenderChanged(core, changed0, old),
       IF old = NoCall THEN Null ELSE old.functionValidation,
       ComputeValidation(parsed, core.intervalA, core.intervalB))

\* the cells that depend on parsedFunction and functionValidation
RenderCells(core, changed0, parsed, validation, old) ==
  LET changed == RenderChanged(core, changed0, old)
                 \cup (IF ValidationDeps \cap RenderChanged(core, changed0, old) /= {}
                       THEN {"functionValidation"} ELSE {})
  IN core @@
     [parsedFunction |-> parsed,
      functionValidation |-> validation,
      allResults |-> Memo(AllResultsDeps, changed,
                          IF old = NoCall THEN Null ELSE old.allResults,
                          ComputeAllResults(parsed, core.intervalA, core.intervalB, core.degree,
                                            core.enabledMethods, core.randomSeed, validation)),
      referenceValue |-> Memo(ReferenceDeps, changed,
                              IF old = NoCall THEN Null ELSE old.referenceValue,
                              ComputeReference(parsed, core.intervalA, core.intervalB, validation)),
      convergenceData |-> Memo(ConvergenceDeps, changed,
                               IF old = NoCall THEN Null ELSE old.convergenceData,
                               ComputeConvergence(parsed, core.intervalA, core.intervalB,
                                                  core.enabledMethods, core.randomSeed,
                                                  validation)),
      results |-> Memo(ResultsDeps, changed,
                       IF old = NoCall THEN Null ELSE old.results,
                       ComputeResults(parsed, core.intervalA, core.intervalB, core.degree,
                                      core.expression)),
      changed |-> changed0,
      referenceRuns |-> ReferenceRuns(changed, parsed, core.intervalA, core.intervalB,
                                      validation)]

\* the state of the hooks after a render, as the one element of a set: core0
\* holds the values of useState, old the cells of the render before
Render(core0, changed0, old) ==
  UNION {UNION {{RenderCells(core, changed0, parsed, validation, old)
                  : validation \in {RenderValidation(core, changed0, parsed, old)}}
                : parsed \in {RenderParsed(core, changed0, old)}}
         : core \in {core0}}

(***************************************************************************)
(* The operators applied by name.                                          *)
(***************************************************************************)
Op(name, args) ==
  CASE name = "FRound" /\ Len(args) = 4 -> FRound(args[1], args[2], args[3], args[4])
    [] name = "FAdd" /\ Len(args) = 2 -> FAdd(args[1], args[2])
    [] name = "FAddNum" /\ Len(args) = 2 -> FAddNum(args[1], args[2])
    [] name = "FMul" /\ Len(args) = 2 -> FMul(args[1], args[2])
    [] name = "FInt" /\ Len(args) = 1 -> FInt(args[1])
    [] name = "FDiv" /\ Len(args) = 2 -> FDiv(args[1], args[2])
    [] name = "FSub" /\ Len(args) = 2 -> FSub(args[1], args[2])
    [] name = "BigDivMod" /\ Len(args) = 2 -> BigDivMod(args[1], args[2])
    [] name = "FRatio" /\ Len(args) = 3 -> FRatio(args[1], args[2], args[3])
    [] name = "DecLit" /\ Len(args) = 3 -> DecLit(args[1], args[2], args[3])
    [] name = "FFloorInt" /\ Len(args) = 1 -> FFloorInt(args[1])
    [] name = "TaylorTail" /\ Len(args) = 4 -> TaylorTail(args[1], args[2], args[3], args[4])
    [] name = "MathCos" /\ Len(args) = 1 -> MathCos(args[1])
    [] name = "Mulberry32" /\ Len(args) = 1 -> Mulberry32(args[1])
    [] name = "RandomDraw" /\ Len(args) = 2 -> RandomDraw(args[1], args[2])
    [] name = "SortInsert" /\ Len(args) = 2 -> SortInsert(args[1], args[2])
    [] name = "SortAscending" /\ Len(args) = 2 -> SortAscending(args[1], args[2])
    [] name = "FejerInner" /\ Len(args) = 2 -> FejerInner(args[1], args[2])
    [] name = "computeFejerWeights" /\ Len(args) = 2 -> computeFejerWeights(args[1], args[2])
    [] name = "GaussLegendreGetNodesAndWeights" /\ Len(args) = 1 -> GaussLegendreGetNodesAndWeights(args[1])
    [] name = "EquallySpacedGetNodesAndWeights" /\ Len(args) = 1 -> EquallySpacedGetNodesAndWeights(args[1])
    [] name = "ChebyshevGetNodesAndWeights" /\ Len(args) = 1 -> ChebyshevGetNodesAndWeights(args[1])
    [] name = "RandomGetNodesAndWeights" /\ Len(args) = 2 -> RandomGetNodesAndWeights(args[1], args[2])
    [] name = "OptionsSeed" /\ Len(args) = 1 -> OptionsSeed(args[1])
    [] name = "ConvError" /\ Len(args) = 2 -> ConvError(args[1], args[2])
    [] name = "validateFunctionOnInterval" /\ Len(args) = 3 ->
         validateFunctionOnInterval(args[1], args[2], args[3])
    [] name = "parseFloat" /\ Len(args) = 1 -> parseFloat(args[1])
    [] name = "updateDegree" /\ Len(args) = 1 -> updateDegree(args[1])
    [] name = "ReshuffledSeed" /\ Len(args) = 1 -> ReshuffledSeed(args[1])
    [] name = "Render" /\ Len(args) = 3 -> Render(args[1], args[2], args[3])
    [] name = "CancelTimer" /\ Len(args) = 2 -> CancelTimer(args[1], args[2])
    [] name = "DragAccepts" /\ Len(args) = 2 -> DragAccepts(args[1], args[2])
    [] name = "FreshSeries" /\ Len(args) = 1 -> FreshSeries(args[1])
    [] name = "SampleX" /\ Len(args) = 3 -> SampleX(args[1], args[2], args[3])
    [] name = "CatchSample" /\ Len(args) = 1 -> CatchSample(args[1])
    [] name = "SampleRound" /\ Len(args) = 4 -> SampleRound(args[1], args[2], args[3], args[4])
    [] name = "PairRule" /\ Len(args) = 2 -> PairRule(args[1], args[2])
    [] name = "ScanPairs" /\ Len(args) = 1 -> ScanPairs(args[1])
    [] name = "BoundaryPoints" /\ Len(args) = 2 -> BoundaryPoints(args[1], args[2])
    [] name = "BoundaryRule" /\ Len(args) = 1 -> BoundaryRule(args[1])
    [] name = "BoundaryCheck" /\ Len(args) = 3 -> BoundaryCheck(args[1], args[2], args[3])
    [] name = "ValidateSamples" /\ Len(args) = 6 ->
         ValidateSamples(args[1], args[2], args[3], args[4], args[5], args[6])
    [] name = "ConvRound" /\ Len(args) = 7 ->
         ConvRound(args[1], args[2], args[3], args[4], args[5], args[6], args[7])
    [] name = "HalfTol" /\ Len(args) = 1 -> HalfTol(args[1])
    [] name = "SimpsonAccept" /\ Len(args) = 4 -> SimpsonAccept(args[1], args[2], args[3], args[4])
    [] name = "SimpsonNode" /\ Len(args) = 10 ->
         SimpsonNode(args[1], args[2], args[3], args[4], args[5], args[6], args[7], args[8], args[9], args[10])
    [] name = "adaptiveSimpsonRecurse" /\ Len(args) = 10 ->
         adaptiveSimpsonRecurse(args[1], args[2], args[3], args[4], args[5], args[6], args[7], args[8], args[9], args[10])
    [] name = "SimpsonStart" /\ Len(args) = 3 -> SimpsonStart(args[1], args[2], args[3])
    [] name = "adaptiveSimpson" /\ Len(args) = 5 -> adaptiveSimpson(args[1], args[2], args[3], args[4], args[5])
    [] name = "computeReferenceValue" /\ Len(args) = 3 -> computeReferenceValue(args[1], args[2], args[3])
    [] name = "ApplyF" /\ Len(args) = 2 -> ApplyF(args[1], args[2])
    [] name = "transformNode" /\ Len(args) = 3 -> transformNode(args[1], args[2], args[3])
    [] name = "transformWeight" /\ Len(args) = 3 -> transformWeight(args[1], args[2], args[3])
    [] name = "QuadLoop" /\ Len(args) = 7 -> QuadLoop(args[1], args[2], args[3], args[4], args[5], args[6], args[7])
    [] name = "computeQuadrature" /\ Len(args) = 6 -> computeQuadrature(args[1], args[2], args[3], args[4], args[5], args[6])

(***************************************************************************)
(* The state of the model.  The modules keep no state of their own: the    *)
(* variables record what the callers of the library observe.               *)
(*   genLast    the latest direct call of a generator and what it returned *)
(*   genSeen    an earlier generator call, kept for comparison             *)
(*   genSince   the number of generator calls made since genSeen           *)
(*   genFailed  whether one of those calls threw                           *)
(*   quadLast   the call of computeQuadrature that has not returned to its *)
(*              caller yet, with what it did                               *)
(*   simStack   the calls of adaptiveSimpsonRecurse that have not returned *)
(*              yet, the innermost last                                    *)
(*   simRet     the value a call of adaptiveSimpsonRecurse is returning    *)
(*   simObs     the call of computeReferenceValue in progress and what was *)
(*              observed of it so far: the steps taken, the evaluations of *)
(*              f, the sub-intervals accepted and their error estimates    *)
(*   convObs    the call of computeConvergenceData in progress: its        *)
(*              reference value, the data pushed so far, the position of   *)
(*              its loops and the calls it has made                        *)
(*   valObs     the call of validateFunctionOnInterval in progress: the    *)
(*              position of its sampling loop, values, nanCount, infCount  *)
(*              and the indices of the samples at which f threw            *)
(*   tog        enabledMethods and activeMethod of useMultiQuadrature at   *)
(*              its last render, and the calls of toggleMethod made since  *)
(*   hook       the state of the hooks at their last render, the values    *)
(*              their useMemo cells hold, and what that render computed    *)
(*   drag       the Graph's board, sliders, dragTimeoutRef and timers, the *)
(*              clock, and the calls of onIntervalChange                   *)
(***************************************************************************)
VARIABLES genLast, genSeen, genSince, genFailed, quadLast, simStack, simRet, simObs,
          convObs, valObs, tog, hook, drag

vars == <<genLast, genSeen, genSince, genFailed, quadLast, simStack, simRet, simObs, convObs,
          valObs, tog, hook, drag>>

GenVars == <<genLast, genSeen, genSince, genFailed>>
QuadVars == <<quadLast>>
SimVars == <<simStack, simRet, simObs>>
ConvVars == <<convObs>>
ValVars == <<valObs>>
UiVars == <<tog, hook, drag>>
NotGenVars == <<QuadVars, SimVars, ConvVars, ValVars, UiVars>>
NotQuadVars == <<GenVars, SimVars, ConvVars, ValVars, UiVars>>
NotSimVars == <<GenVars, QuadVars, ConvVars, ValVars, UiVars>>
NotConvVars == <<GenVars, QuadVars, SimVars, ValVars, UiVars>>
NotValVars == <<GenVars, QuadVars, SimVars, ConvVars, UiVars>>
LibraryVars == <<GenVars, QuadVars, SimVars, ConvVars, ValVars>>
NotTogVars == <<LibraryVars, hook, drag>>
NotHookVars == <<LibraryVars, tog, drag>>
NotDragVars == <<LibraryVars, tog, hook>>

\* how many calls after the remembered one are counted
MaxBetween == 2

\* a generator whose pseudo-random stream is shared by the calls: once other
\* calls were made, the seed that is passed no longer decides the draws
GeneratorCallSharedRng(methodId, args) ==
  IF methodId = "random"
  THEN QUADRATURE_METHODS.random.getNodesAndWeights[
         args[1], IF Len(args) >= 2 /\ genSince = 0 THEN args[2] ELSE 42]
  ELSE QUADRATURE_METHODS[methodId].getNodesAndWeights[args[1]]

\* generators whose tables a failed call leaves shifted by one degree
GeneratorCallCorrupting(methodId, args) ==
  IF methodId = "random"
  THEN QUADRATURE_METHODS.random.getNodesAndWeights[
         args[1], IF Len(args) >= 2 THEN args[2] ELSE 42]
  ELSE QUADRATURE_METHODS[methodId].getNodesAndWeights[
         IF genFailed /\ args[1] >= 2 /\ args[1] <= 10 THEN args[1] - 1 ELSE args[1]]

\* methodId's generator called with the argument list args: <<n>>, or
\* <<n, seed>>; random.getNodesAndWeights(n, seed = 42) takes 42 for a seed
\* that is not passed
GeneratorCall(methodId, args) ==
  IF methodId = "random"
  THEN QUADRATURE_METHODS.random.getNodesAndWeights[
         args[1], IF Len(args) >= 2 THEN args[2] ELSE 42]
  ELSE QUADRATURE_METHODS[methodId].getNodesAndWeights[args[1]]

GenCallRecord(methodId, args) ==
  [type |-> "call", methodId |-> methodId, args |-> args,
   outcome |-> GeneratorCall(methodId, args)]

\* the seeds that direct calls of the Random generator pass
GenSeeds == {98, 9739}

\* the argument lists a generator is called with
GenArgs(methodId) ==
  IF methodId = "random"
  THEN {<<n>> : n \in Degrees} \cup {<<n, seed>> : n \in Degrees, seed \in GenSeeds}
  ELSE {<<n>> : n \in Degrees}

GenIdle == genLast = NoCall /\ genSeen = NoCall /\ genSince = 0 /\ genFailed = FALSE
QuadIdle == quadLast = NoCall
SimIdle == simStack = <<>> /\ simRet = NoCall /\ simObs = [phase |-> "idle"]
ConvIdle == convObs = [phase |-> "idle", seen |-> NoCall]
ValIdle == valObs = [phase |-> "idle"]
UiIdle == tog = NoCall /\ hook = NoCall /\ drag = NoCall
LibraryIdle == GenIdle /\ QuadIdle /\ SimIdle /\ ConvIdle /\ ValIdle

InitGen == LibraryIdle /\ UiIdle

\* a caller calls one of the four generators
GenCall(methodId, args) ==
  /\ genLast' = GenCallRecord(methodId, args)
  /\ genSince' = IF genSeen = NoCall THEN 0 ELSE BigMin(genSince + 1, MaxBetween)
  /\ genFailed' = (genSeen /= NoCall /\ (genFailed \/ genLast'.outcome.type = "throw"))
  /\ UNCHANGED <<genSeen, NotGenVars>>

\* the observer keeps the latest call to compare later calls with it
GenRemember ==
  /\ genLast /= NoCall
  /\ genSeen' = genLast
  /\ genSince' = 0
  /\ genFailed' = FALSE
  /\ UNCHANGED <<genLast, NotGenVars>>

NextGen ==
  \/ \E i \in 1..Len(METHOD_IDS) : \E args \in GenArgs(METHOD_IDS[i]) : GenCall(METHOD_IDS[i], args)
  \/ GenRemember

SpecGen == InitGen /\ [][NextGen]_vars

(***************************************************************************)
(* Sums and tolerances of the properties.                                  *)
(***************************************************************************)
\* the sum of the numbers of a sequence, added from the first to the last
RECURSIVE SumInOrder(_)
SumInOrder(xs) ==
  IF xs = <<>> THEN FZero(0)
  ELSE FAdd(SumInOrder(SubSeq(xs, 1, Len(xs) - 1)), xs[Len(xs)])

\* |x - y| <= tolerance
Within(x, y, tolerance) == FLe(FAbs(FSub(x, y)), tolerance)

(***************************************************************************)
(* Properties of the generators (SpecGen).                                 *)
(***************************************************************************)
\* both the remembered and the latest call are calls of methodId that returned
GenBothReturned(methodId) ==
  /\ genSeen /= NoCall
  /\ genSeen.methodId = methodId /\ genLast.methodId = methodId
  /\ genSeen.outcome.type = "return" /\ genLast.outcome.type = "return"

\* the seed a call of the Random generator runs with
GenSeedOf(call) == IF Len(call.args) >= 2 THEN call.args[2] ELSE 42

\* the single node the Random generator returns for seed at n = 1
FirstDraw(seed) == QUADRATURE_METHODS.random.getNodesAndWeights[1, seed].value.nodes

QuadInput(methodId, f, a, b, n, options) ==
  [methodId |-> methodId, f |-> f, a |-> a, b |-> b, n |-> n, options |-> options]

\* the registered identifiers, one that is unknown and one that every object
\* inherits
QuadMethodIds == {METHOD_IDS[i] : i \in 1..Len(METHOD_IDS)} \cup {"simpson", "toString"}

QuadOptions ==
  {NoOptions, Options("undefined", 0), Options("null", 0),
   Options("number", 0), Options("number", 42), Options("number", 98)}

\* the degrees of the calls: the ends of 1..10, a degree inside, and the
\* nearest degrees outside
QuadDegrees == {1 - DegreeSlack, 1, 2, 10, 10 + DegreeSlack}

\* the intervals the linear functions are integrated over
LinearIntervals == {<<0, 2>>, <<-1, 1>>, <<1, 4>>, <<-3, 2>>}

QuadInputs ==
  {QuadInput(METHOD_IDS[i], "square", 0, 1, n, o) :
     i \in 1..Len(METHOD_IDS), n \in {1, 3}, o \in QuadOptions}
  \cup {QuadInput(id, f, ab[1], ab[2], 2, NoOptions) :
     id \in QuadMethodIds, f \in {"x", "throws"}, ab \in {<<0, 1>>, <<1, 1>>, <<1, 0>>}}
  \cup {QuadInput(METHOD_IDS[i], f, -1, 1, n, NoOptions) :
     i \in 1..Len(METHOD_IDS), f \in {"cube", "recip", "nan"}, n \in QuadDegrees}
  \cup {QuadInput("gaussLegendre", Monomials[nk[2] + 1], -1, 1, nk[1], NoOptions) :
     nk \in {p \in (1..10) \X (0..19) : p[2] <= 2 * p[1] - 1}}
  \cup {QuadInput("equallySpaced", f, ab[1], ab[2], n, NoOptions) :
     f \in {"x", "affine"}, ab \in LinearIntervals, n \in 1..10}

\* computeQuadrature applied to an input of the callers
QuadRun(inp) ==
  Op("computeQuadrature", <<inp.methodId, inp.f, Num(inp.a), Num(inp.b), inp.n, inp.options>>)

InitQuad == LibraryIdle /\ UiIdle

\* a caller calls computeQuadrature, which runs to its return or throw
QuadCall(inp) ==
  /\ quadLast = NoCall
  /\ quadLast' = [type |-> "call", input |-> inp, result |-> QuadRun(inp)]
  /\ UNCHANGED NotQuadVars

\* the caller takes the result
QuadReturn ==
  /\ quadLast /= NoCall
  /\ quadLast' = NoCall
  /\ UNCHANGED NotQuadVars

NextQuad ==
  \/ \E inp \in QuadInputs : QuadCall(inp)
  \/ QuadReturn

SpecQuad == InitQuad /\ [][NextQuad]_vars

(***************************************************************************)
(* Properties of computeQuadrature (SpecQuad).                             *)
(***************************************************************************)
QuadCalled == quadLast /= NoCall

\* C12: for Random, computeQuadrature with options.seed unset (options
\* omitted, seed undefined or null) does what it does with seed 42; a seed
\* that is supplied, 0 included, reaches the generator unchanged; for the
\* other three methods the call does not depend on options.seed.
C12_SeedDefault ==
  QuadCalled =>
    LET inp == quadLast.input
        res == quadLast.result
    IN /\ (inp.methodId = "random" /\ inp.options.has /= "number")
            => res = QuadRun([inp EXCEPT !.options = Options("number", 42)])
       /\ (inp.methodId = "random" /\ inp.options.has = "number")
            => res.generated = <<[methodId |-> "random", args |-> <<inp.n, inp.options.seed>>]>>
       /\ (inp.methodId \in {"gaussLegendre", "equallySpaced", "chebyshev"})
            => /\ res = QuadRun([inp EXCEPT !.options = NoOptions])
               /\ res.generated = <<[methodId |-> inp.methodId, args |-> <<inp.n>>]>>

\* Random was run with seed null and generated its nodes from seed 42
C12_Witness ==
  /\ QuadCalled
  /\ quadLast.input.methodId = "random"
  /\ quadLast.input.options = Options("null", 0)
  /\ quadLast.input.n = 3
  /\ quadLast.result.outcome.type = "return"
  /\ quadLast.result.generated = <<[methodId |-> "random", args |-> <<3, 42>>]>>

\* C17 as stated: computeQuadrature with a >= b is rejected with the
\* invalid-interval error before any work: no generator is called, f is not
\* evaluated, no result is returned.
C17_IntervalRejected ==
  (QuadCalled /\ quadLast.input.a >= quadLast.input.b)
    => quadLast.result = Ran(Throw(InvalidIntervalError, "interval"), <<>>, <<>>)

\* C18 as stated: computeQuadrature with an identifier that is not one of
\* the four registered ones throws the unknown-method error, before any
\* generator is called and before f is evaluated.
C18_UnknownMethodError ==
  (QuadCalled /\ quadLast.input.methodId \notin {METHOD_IDS[i] : i \in 1..Len(METHOD_IDS)})
    => quadLast.result = Ran(Throw(UnknownMethodError, quadLast.input.methodId), <<>>, <<>>)

\* computeQuadrature was called with an identifier that no object has as a
\* property, and threw the unknown-method error with no generator called
C18_Witness ==
  /\ QuadCalled
  /\ quadLast.input.methodId = "simpson"
  /\ quadLast.result = Ran(Throw(UnknownMethodError, "simpson"), <<>>, <<>>)

\* the call returned a QuadratureResult
QuadReturned == QuadCalled /\ quadLast.result.outcome.type = "return"

\* the integral of c1*x + c0 over [a, b] for integers c1, c0, a, b
LinearIntegral(c1, c0, a, b) == FDiv(FInt(c1 * (b * b - a * a) + 2 * c0 * (b - a)), FInt(2))

\* the exact integral of the linear function f over the interval of inp
LinearExact(inp) ==
  IF inp.f = "x" THEN LinearIntegral(1, 0, inp.a, inp.b) ELSE LinearIntegral(3, 1, inp.a, inp.b)

QuadLinear ==
  /\ QuadReturned
  /\ quadLast.input.methodId = "equallySpaced"
  /\ quadLast.input.f \in {"x", "affine"}
  /\ quadLast.input.a < quadLast.input.b

\* C9 as stated: EquallySpaced returns the exact integral of a linear
\* function, for every interval a < b and every n in 1..10.
C9_LinearExact ==
  QuadLinear => quadLast.result.outcome.value.integral = LinearExact(quadLast.input)

IntAbs(i) == IF i < 0 THEN 0 - i ELSE i

\* (b - a) * (|c1| * max(|a|, |b|) + |c0|) for the linear function and the
\* interval of inp
LinearScale(inp) ==
  (inp.b - inp.a) * ((IF inp.f = "x" THEN 1 ELSE 3) * BigMax(IntAbs(inp.a), IntAbs(inp.b))
                     + (IF inp.f = "x" THEN 0 ELSE 1))

\* C9 (as the source has it): for a linear function c1*x + c0, every
\* interval a < b and every n in 1..10, EquallySpaced returns the integral
\* up to rounding: within 1e-9 * (b - a) * (|c1| * max(|a|, |b|) + |c0|) of
\* c1*(b^2 - a^2)/2 + c0*(b - a).
C9_LinearWithinTolerance ==
  QuadLinear => Within(quadLast.result.outcome.value.integral, LinearExact(quadLast.input),
                       FMul(DecLit(0, <<1>>, 9), FInt(LinearScale(quadLast.input))))

\* f(x) = x on [0, 2] with n = 6, where the sum is 2 + 2^-51
C9_Witness ==
  /\ QuadLinear
  /\ quadLast.input = QuadInput("equallySpaced", "x", 0, 2, 6, NoOptions)
  /\ quadLast.result.outcome.value.integral /= FInt(2)
  /\ Within(quadLast.result.outcome.value.integral, FInt(2), DecLit(0, <<1>>, 9))

\* the NodeWeightSet the generator of the call returned
QuadSet(inp) ==
  IF inp.methodId = "random"
  THEN QUADRATURE_METHODS.random.getNodesAndWeights[inp.n, OptionsSeed(inp.options)].value
  ELSE QUADRATURE_METHODS[inp.methodId].getNodesAndWeights[inp.n].value

\* the call is one with a registered method, a < b, n in 1..10 and an f
\* that returns a value at every node
QuadRegular ==
  /\ QuadCalled
  /\ quadLast.input.methodId \in {METHOD_IDS[i] : i \in 1..Len(METHOD_IDS)}
  /\ quadLast.input.a < quadLast.input.b
  /\ quadLast.input.n \in 1..10
  /\ quadLast.input.f /= "throws"

\* C6: computeQuadrature with a < b, n in 1..10 and an f that returns calls
\* f once per node in node order and returns n rows in node order; row i
\* has index i, the generator's i-th node and weight, transformedNode =
\* ((b-a)/2)*node + (a+b)/2, transformedWeight = ((b-a)/2)*weight, fValue =
\* f(transformedNode) and contribution = transformedWeight*fValue; the
\* integral is the sum of the contributions added in row order.
C6_DetailRows ==
  QuadRegular =>
    LET inp == quadLast.input
        n == inp.n
        set == QuadSet(inp)
        half == FDiv(FSub(FInt(inp.b), FInt(inp.a)), FInt(2))
        mid == FDiv(FAdd(FInt(inp.a), FInt(inp.b)), FInt(2))
    IN /\ QuadReturned
       /\ LET res == quadLast.result.outcome.value
          IN /\ Len(res.details) = n
             /\ quadLast.result.evaluated = [i \in 1..n |-> res.details[i].transformedNode]
             /\ \A i \in 1..n :
                  LET row == res.details[i]
                  IN /\ row.index = i
                     /\ row.originalNode = set.nodes[i]
                     /\ row.originalWeight = set.weights[i]
                     /\ row.transformedNode = FAdd(FMul(half, set.nodes[i]), mid)
                     /\ row.transformedWeight = FMul(half, set.weights[i])
                     /\ ApplyF(inp.f, row.transformedNode) = Return(row.fValue)
                     /\ row.contribution = FMul(row.transformedWeight, row.fValue)
             /\ res.integral = SumInOrder([i \in 1..n |-> res.details[i].contribution])

\* Random with three nodes on [0, 1] returned three rows
C6_Witness ==
  /\ QuadRegular /\ QuadReturned
  /\ quadLast.input = QuadInput("random", "square", 0, 1, 3, Options("number", 98))
  /\ Len(quadLast.result.outcome.value.details) = 3
  /\ FGt(quadLast.result.outcome.value.integral, FZero(0))

\* C7: when f returns NaN, +Infinity or -Infinity at mapped nodes,
\* computeQuadrature throws nothing and returns all n rows; the rows at
\* those nodes have a non-finite fValue and contribution, and the integral
\* is non-finite.
C7_NonFinitePropagates ==
  QuadRegular =>
    /\ QuadReturned
    /\ LET res == quadLast.result.outcome.value
           hit == {i \in 1..Len(res.details) : ~isFinite(res.details[i].fValue)}
       IN /\ Len(res.details) = quadLast.input.n
          /\ hit = {i \in 1..Len(res.details) :
                      ~isFinite(ApplyF(quadLast.input.f, res.details[i].transformedNode).value)}
          /\ \A i \in hit : ~isFinite(res.details[i].contribution)
          /\ hit /= {} => ~isFinite(res.integral)

\* 1/x on [-1, 1] with the one GaussLegendre node 0: fValue is Infinity
C7_Witness ==
  /\ QuadReturned
  /\ quadLast.input = QuadInput("gaussLegendre", "recip", -1, 1, 1, NoOptions)
  /\ quadLast.result.outcome.value.details[1].fValue = FInf(0)
  /\ quadLast.result.outcome.value.integral = FInf(0)

\* the call integrates x^k over [-1, 1] by GaussLegendre with k <= 2n - 1
QuadMonomial ==
  /\ QuadReturned
  /\ quadLast.input.methodId = "gaussLegendre"
  /\ IsMonomial(quadLast.input.f)
  /\ quadLast.input.a = -1 /\ quadLast.input.b = 1
  /\ MonomialDegree(quadLast.input.f) <= 2 * quadLast.input.n - 1

\* C8: for every n in 1..10 the n-point GaussLegendre rule integrates x^k,
\* 0 <= k <= 2n-1, over [-1, 1] to 2/(k+1) for even k and 0 for odd k
\* within 1e-10.
C8_MonomialsExact ==
  QuadMonomial =>
    LET k == MonomialDegree(quadLast.input.f)
    IN Within(quadLast.result.outcome.value.integral,
              IF k % 2 = 0 THEN FDiv(FInt(2), FInt(k + 1)) ELSE FZero(0),
              DecLit(0, <<1>>, 10))

\* x^4 with n = 3 gives 0.4
C8_Witness ==
  /\ QuadMonomial
  /\ quadLast.input = QuadInput("gaussLegendre", "x^4", -1, 1, 3, NoOptions)
  /\ Within(quadLast.result.outcome.value.integral, DecLit(0, <<4>>, 1), DecLit(0, <<1>>, 10))

(***************************************************************************)
(* computeReferenceValue step by step (SpecSimpson): adaptiveSimpson       *)
(* starts the recursion, every call of adaptiveSimpsonRecurse is a frame   *)
(* of simStack, and a step runs one call up to its test or hands a         *)
(* returned value to the caller's frame.                                   *)
(***************************************************************************)
SimInput(f, a, b) == [f |-> f, a |-> a, b |-> b]

Polynomials == {"x", "square", "cube"}

\* the polynomials on four intervals, a function with a jump, one that is
\* NaN at an end point, and a smooth one that is no polynomial
SimInputs ==
  {SimInput(f, ab[1], ab[2]) : f \in Polynomials, ab \in {<<0, 1>>, <<-1, 1>>, <<-3, 5>>, <<4, 11>>}}
  \cup {SimInput("step", -1, 2), SimInput("ratio", 0, 1), SimInput("recip", 20, 21)}

\* a call adaptiveSimpsonRecurse(f, a, b, fa, fb, fm, whole, tol, maxDepth, depth)
\* that has not evaluated anything yet
SimFrame(a, b, fa, fb, fm, whole, tol, depth) ==
  [a |-> a, b |-> b, fa |-> fa, fb |-> fb, fm |-> fm, whole |-> whole, tol |-> tol,
   depth |-> depth, stage |-> "enter", node |-> NoCall, leftVal |-> FNaN]

SimTop == simStack[Len(simStack)]
SimPop == SubSeq(simStack, 1, Len(simStack) - 1)

\* the sub-interval's error estimate |combined - whole| / 15
SimEstimate(node) == (FAbs(node.delta) (/) Num(15))

InitSimpson == LibraryIdle /\ UiIdle

\* a caller calls computeReferenceValue(f, a, b): adaptiveSimpson evaluates
\* f at a, b and the midpoint and calls adaptiveSimpsonRecurse at depth 0
SimCall(inp) ==
  /\ simObs.phase = "idle"
  /\ \E st \in {Op("SimpsonStart", <<inp.f, Num(inp.a), Num(inp.b)>>)} :
        IF st.type = "throw"
        THEN /\ simObs' = [phase |-> "done", input |-> inp, evals |-> st.evals,
                           outcome |-> Throw(st.error, "f")]
             /\ UNCHANGED <<simStack, simRet>>
        ELSE /\ simStack' = <<SimFrame(Num(inp.a), Num(inp.b), st.fa, st.fb, st.fm, st.whole,
                                       ReferenceTol, 0)>>
             /\ simObs' = [phase |-> "running", input |-> inp, steps |-> 0, evals |-> 3, maxDepth |-> 0,
                           leaves |-> 0, capped |-> 0, est |-> Num(0), estTol |-> Num(0),
                           first |-> NoCall, last |-> NoCall]
             /\ UNCHANGED simRet
  /\ UNCHANGED NotSimVars

\* the innermost call evaluates f at the two quarter points and either
\* returns combined + delta / 15 or calls itself on the left half
SimEnter ==
  /\ simObs.phase = "running" /\ simRet = NoCall
  /\ simStack /= <<>> /\ SimTop.stage = "enter"
  /\ \E top \in {SimTop} :
     \E node \in {Op("SimpsonNode", <<simObs.input.f, top.a, top.b, top.fa, top.fb, top.fm,
                                      top.whole, top.tol, ReferenceMaxDepth, top.depth>>)} :
        IF node.type = "throw"
        THEN /\ simStack' = <<>>
             /\ simObs' = [phase |-> "done", input |-> simObs.input,
                           evals |-> simObs.evals + node.evals, outcome |-> Throw(node.error, "f")]
             /\ UNCHANGED simRet
        ELSE LET seen == [simObs EXCEPT
                            !.steps = @ + 1,
                            !.evals = @ + 2,
                            !.maxDepth = BigMax(@, top.depth),
                            !.first = IF top.depth = 0 THEN node ELSE @,
                            !.last = [tol |-> top.tol, depth |-> top.depth, node |-> node]]
                 byTol == FLe(FAbs(node.delta), (Num(15) (.) top.tol))
             IN IF node.accept
                THEN /\ simStack' = SimPop
                     /\ simRet' = [type |-> "value", value |-> node.value]
                     /\ simObs' = [seen EXCEPT
                                     !.leaves = @ + 1,
                                     !.capped = IF byTol THEN @ ELSE @ + 1,
                                     !.est = (@ (+) SimEstimate(node)),
                                     !.estTol = IF byTol THEN (@ (+) SimEstimate(node)) ELSE @]
                ELSE /\ simStack' = Append(Append(SimPop, [top EXCEPT !.stage = "left", !.node = node]),
                                           SimFrame(top.a, node.m, top.fa, top.fm, node.flm, node.left,
                                                    Op("HalfTol", <<top.tol>>), top.depth + 1))
                     /\ simObs' = seen
                     /\ UNCHANGED simRet
  /\ UNCHANGED NotSimVars

\* a call returns to the call that made it: after the left half that one
\* calls itself on the right half, after the right half it returns the sum
SimResume ==
  /\ simObs.phase = "running" /\ simRet /= NoCall /\ simStack /= <<>>
  /\ LET top == SimTop
     IN IF top.stage = "left"
        THEN /\ simStack' = Append(Append(SimPop, [top EXCEPT !.stage = "right", !.leftVal = simRet.value]),
                                   SimFrame(top.node.m, top.b, top.fm, top.fb, top.node.frm, top.node.right,
                                            Op("HalfTol", <<top.tol>>), top.depth + 1))
             /\ simRet' = NoCall
        ELSE /\ simStack' = SimPop
             /\ simRet' = [type |-> "value", value |-> (top.leftVal (+) simRet.value)]
  /\ simObs' = [simObs EXCEPT !.steps = @ + 1]
  /\ UNCHANGED NotSimVars

\* the outermost call returns: computeReferenceValue has its value
SimFinish ==
  /\ simObs.phase = "running" /\ simRet /= NoCall /\ simStack = <<>>
  /\ simObs' = [simObs EXCEPT !.phase = "done"] @@ [outcome |-> Return(simRet.value)]
  /\ simRet' = NoCall
  /\ UNCHANGED <<simStack, NotSimVars>>

\* the caller takes the value
SimReturn ==
  /\ simObs.phase = "done"
  /\ simObs' = [phase |-> "idle"]
  /\ UNCHANGED <<simStack, simRet, NotSimVars>>

NextSimpson ==
  \/ \E inp \in SimInputs : SimCall(inp)
  \/ SimEnter
  \/ SimResume
  \/ SimFinish
  \/ SimReturn

SpecSimpson == InitSimpson /\ [][NextSimpson]_vars

(***************************************************************************)
(* Properties of computeReferenceValue (SpecSimpson).                      *)
(***************************************************************************)
SimRunning == simObs.phase = "running"
SimDone == simObs.phase = "done"

\* the calls in progress are nested one level deeper each, never deeper than
\* 30, and each was handed half the tolerance of the call that made it
SimDepthBounded ==
  \A i \in 1..Len(simStack) :
    /\ simStack[i].depth = i - 1
    /\ simStack[i].depth <= 30
    /\ simStack[i].tol = IF i = 1 THEN DecLit(0, <<1>>, 14)
                         ELSE FDiv(simStack[i - 1].tol, FInt(2))

\* what a call that has just run to its test did with its sub-interval
SimTestRule ==
  (SimRunning /\ simObs'.phase = "running" /\ simObs'.evals = simObs.evals + 2) =>
    LET top == simStack[Len(simStack)]
        node == simObs'.last.node
    IN IF FLe(FAbs(FSub(node.combined, top.whole)), FMul(FInt(15), top.tol)) \/ top.depth >= 30
       THEN /\ Len(simStack') = Len(simStack) - 1
            /\ simRet' = [type |-> "value",
                          value |-> FAdd(node.combined, FDiv(FSub(node.combined, top.whole), FInt(15)))]
       ELSE /\ Len(simStack') = Len(simStack) + 1
            /\ simRet' = NoCall
            /\ simStack'[Len(simStack')].depth = top.depth + 1
            /\ simStack'[Len(simStack')].tol = FDiv(top.tol, FInt(2))
            /\ simStack'[Len(simStack')].a = top.a
            /\ simStack'[Len(simStack')].b = FDiv(FAdd(top.a, top.b), FInt(2))

\* the most steps a call of computeReferenceValue takes on the inputs
SimMaxSteps == 121

\* a call in progress can take a step, and has taken no more than
\* SimMaxSteps
SimProgress ==
  SimRunning =>
    /\ simObs.steps <= SimMaxSteps
    /\ \/ simRet /= NoCall
       \/ simRet = NoCall /\ simStack /= <<>> /\ simStack[Len(simStack)].stage = "enter"

\* every step of a call in progress is counted
SimCounted ==
  (SimRunning /\ simObs'.phase = "running") => simObs'.steps = simObs.steps + 1

\* C14: a sub-interval is accepted with combined + (combined - whole)/15
\* exactly when |combined - whole| <= 15*tol or depth >= 30, and otherwise
\* the halves are recursed with tol/2 and depth+1, starting from tolerance
\* 1e-14 at depth 0; the depth never exceeds 30 and every call of
\* computeReferenceValue comes to its end, also for an f that returns NaN:
\* a call in progress can always step, and its steps are counted and bounded.
C14_DepthCapped ==
  /\ [][SimTestRule /\ SimCounted]_vars
  /\ [](SimDepthBounded /\ SimProgress)

\* a sub-interval of the function that is NaN at 0 is accepted at depth 30
\* although its tolerance test fails
C14_Witness ==
  /\ SimRunning
  /\ simObs.input.f = "ratio"
  /\ simObs.last /= NoCall
  /\ simObs.last.depth = 30
  /\ isNaN(simObs.last.node.delta)
  /\ simObs.last.node.accept
  /\ Len(simStack) = 30

\* C15 (as the source has it): the error estimates |combined - whole|/15 of
\* the sub-intervals accepted by the tolerance test sum to at most the initial
\* tolerance 1e-14; so does the sum over all accepted sub-intervals when none
\* was accepted by the cap on the depth.
C15_ToleranceLeavesBounded ==
  (SimRunning \/ (SimDone /\ simObs.outcome.type = "return")) =>
    /\ FLe(simObs.estTol, DecLit(0, <<1>>, 14))
    /\ simObs.capped = 0 => FLe(simObs.est, DecLit(0, <<1>>, 14))

\* C15 as stated: for every recursion tree the estimates of all accepted
\* sub-intervals sum to at most 1e-14.
C15_EstimateBounded ==
  (SimDone /\ simObs.outcome.type = "return") => FLe(simObs.est, DecLit(0, <<1>>, 14))

\* 1/x on [20, 21] ended with 16 accepted sub-intervals, all by the tolerance
\* test, and a positive sum of estimates
C15_Witness ==
  /\ SimDone
  /\ simObs.input = SimInput("recip", 20, 21)
  /\ simObs.leaves = 16 /\ simObs.capped = 0
  /\ FGt(simObs.estTol, FInt(0))

\* the degree of a polynomial of the inputs
PolyDegree(f) == CASE f = "x" -> 1 [] f = "square" -> 2 [] f = "cube" -> 3

RECURSIVE IntPow(_, _)
IntPow(n, k) == IF k = 0 THEN 1 ELSE n * IntPow(n, k - 1)

\* the Number nearest to the integral of x^k over [a, b]
PolyIntegral(f, a, b) ==
  LET k == PolyDegree(f) + 1
      num == IntPow(b, k) - IntPow(a, k)
  IN IF num >= 0 THEN FRatio(0, BigFromInt(num), BigFromInt(k))
     ELSE FRatio(1, BigFromInt(0 - num), BigFromInt(k))

\* the call is one of a polynomial of degree <= 3 and has run its first test
SimPolyTested ==
  /\ SimRunning \/ (SimDone /\ simObs.outcome.type = "return")
  /\ simObs.input.f \in Polynomials
  /\ simObs.first /= NoCall

ConvInput(f, a, b, methodIds, randomSeed) ==
  [f |-> f, a |-> a, b |-> b, methodIds |-> methodIds, randomSeed |-> randomSeed]

\* lists of enabled methods as the hook passes them, and lists that hold an
\* identifier the registry does not define
ConvInputs ==
  {ConvInput("square", 0, 1, METHOD_IDS, 42),
   ConvInput("x", 0, 1, <<"random">>, 98),
   ConvInput("cube", -1, 1, <<"equallySpaced", "random">>, 0),
   ConvInput("square", -1, 1, <<"gaussLegendre", "chebyshev">>, 9739),
   ConvInput("square", 0, 1, <<"gaussLegendre", "simpson">>, 42),
   ConvInput("x", 0, 1, <<"toString", "gaussLegendre">>, 42),
   ConvInput("throws", 0, 1, <<"chebyshev">>, 42),
   ConvInput("square", 0, 1, <<"random", "chebyshev", "equallySpaced", "gaussLegendre">>, 42),
   ConvInput("square", 0, 1, <<"random", "gaussLegendre">>, 42)}

InitConv == LibraryIdle /\ UiIdle

\* a caller calls computeConvergenceData, which computes the reference value
ConvCall(inp) ==
  /\ convObs.phase = "idle"
  /\ \E ref \in {Op("computeReferenceValue", <<inp.f, Num(inp.a), Num(inp.b)>>)} :
        convObs' =
          IF ref.type = "throw"
          THEN [phase |-> "done", seen |-> convObs.seen, input |-> inp,
                calls |-> <<"computeReferenceValue">>, outcome |-> Throw(ref.error, "f")]
          ELSE [phase |-> "running", seen |-> convObs.seen, input |-> inp,
                calls |-> <<"computeReferenceValue">>,
                referenceValue |-> ref.value, data |-> <<>>, points |-> <<>>,
                methodIndex |-> 1, n |-> 1]
  /\ UNCHANGED NotConvVars

\* one round of the inner loop; the tenth round of a method pushes its
\* series, the last method's ends the call; an error of computeQuadrature
\* ends the call with that error
ConvStep ==
  /\ convObs.phase = "running"
  /\ \E round \in {Op("ConvRound", <<convObs.input.methodIds[convObs.methodIndex],
                                       convObs.input.f, Num(convObs.input.a),
                                       Num(convObs.input.b), convObs.n,
                                       convObs.input.randomSeed, convObs.referenceValue>>)} :
     LET inp == convObs.input
         methodId == inp.methodIds[convObs.methodIndex]
         calls == Append(convObs.calls, <<"computeQuadrature", methodId, convObs.n>>)
     IN convObs' =
          IF round.type = "throw"
          THEN [phase |-> "done", seen |-> convObs.seen, input |-> inp, calls |-> calls,
                outcome |-> round]
          ELSE LET points == Append(convObs.points, round.value)
                   data == Append(convObs.data, [methodId |-> methodId, points |-> points])
               IN IF convObs.n < 10
                  THEN [convObs EXCEPT !.calls = calls, !.points = points, !.n = @ + 1]
                  ELSE IF convObs.methodIndex < Len(inp.methodIds)
                  THEN [convObs EXCEPT !.calls = calls, !.points = Op("FreshSeries", <<points>>),
                                       !.data = data,
                                       !.n = 1, !.methodIndex = @ + 1]
                  ELSE [phase |-> "done", seen |-> convObs.seen, input |-> inp, calls |-> calls,
                        outcome |-> Return([referenceValue |-> convObs.referenceValue,
                                            data |-> data])]
  /\ UNCHANGED NotConvVars

\* the caller takes the data, or catches the error and keeps the data it had
ConvReturn ==
  /\ convObs.phase = "done"
  /\ convObs' = [phase |-> "idle",
                seen |-> IF convObs.outcome.type = "return"
                         THEN [type |-> "call", input |-> convObs.input,
                               value |-> convObs.outcome.value]
                         ELSE convObs.seen]
  /\ UNCHANGED NotConvVars

NextConv ==
  \/ \E inp \in ConvInputs : ConvCall(inp)
  \/ ConvStep
  \/ ConvReturn

SpecConv == InitConv /\ [][NextConv]_vars

(***************************************************************************)
(* Properties of computeConvergenceData (SpecConv).                        *)
(***************************************************************************)
ConvReturned == convObs.phase = "done" /\ convObs.outcome.type = "return"

\* the integral computeQuadrature returns for a method and degree of inp
ConvIntegral(inp, methodId, n) ==
  computeQuadrature(methodId, inp.f, FInt(inp.a), FInt(inp.b), n,
                    IF methodId = "random" THEN Options("number", inp.randomSeed) ELSE NoOptions
                   ).outcome.value.integral

\* C13: computeConvergenceData computes the reference value exactly once,
\* before every call of computeQuadrature, and returns for each method of
\* the list a series of exactly 10 points with n = 1, 2, ..., 10 in this
\* order, whose integral is that of computeQuadrature(method, f, a, b, n,
\* seed) and whose error is |integral - referenceValue| for that one
\* reference value.
C13_ConvergenceSeries ==
  /\ convObs.phase /= "idle" =>
       /\ convObs.calls[1] = "computeReferenceValue"
       /\ \A i \in 2..Len(convObs.calls) : convObs.calls[i][1] = "computeQuadrature"
  /\ ConvReturned =>
       LET inp == convObs.input
           out == convObs.outcome.value
       IN /\ out.referenceValue = computeReferenceValue(inp.f, FInt(inp.a), FInt(inp.b)).value
          /\ Len(out.data) = Len(inp.methodIds)
          /\ Len(convObs.calls) = 1 + 10 * Len(inp.methodIds)
          /\ \A j \in 1..Len(out.data) :
               /\ out.data[j].methodId = inp.methodIds[j]
               /\ Len(out.data[j].points) = 10
               /\ \A i \in 1..10 :
                    LET point == out.data[j].points[i]
                    IN /\ point.n = i
                       /\ point.integral = ConvIntegral(inp, inp.methodIds[j], i)
                       /\ point.error = FAbs(FSub(point.integral, out.referenceValue))

\* the four methods' series were returned, and an error is the absolute value
\* of a negative difference
C13_Witness ==
  /\ ConvReturned
  /\ convObs.input.methodIds = METHOD_IDS
  /\ Len(convObs.outcome.value.data) = 4
  /\ \E j \in 1..4 : \E i \in 1..10 :
       LET point == convObs.outcome.value.data[j].points[i]
       IN FLt(point.integral, convObs.outcome.value.referenceValue) /\ FGt(point.error, FInt(0))

\* data as the object it is: the series of each identifier of the list
ConvMapping(value) ==
  [m \in {value.data[j].methodId : j \in 1..Len(value.data)} |->
     value.data[CHOOSE j \in 1..Len(value.data) :
                  /\ value.data[j].methodId = m
                  /\ \A k \in (j + 1)..Len(value.data) : value.data[k].methodId /= m].points]

\* the call that returned has the f, interval and seed of the one before it
ConvSameFunction ==
  /\ ConvReturned
  /\ convObs.seen /= NoCall
  /\ convObs.seen.input.f = convObs.input.f
  /\ convObs.seen.input.a = convObs.input.a
  /\ convObs.seen.input.b = convObs.input.b
  /\ convObs.seen.input.randomSeed = convObs.input.randomSeed

\* C23: for a pure f, the series computeConvergenceData returns for a
\* method is the same for every method list that contains it, and a
\* permutation of the list gives the same mapping from methods to series;
\* the referenceValue is the same.
C23_SeriesIndependent ==
  ConvSameFunction =>
    LET now == ConvMapping(convObs.outcome.value)
        before == ConvMapping(convObs.seen.value)
    IN /\ \A m \in DOMAIN now \cap DOMAIN before : now[m] = before[m]
       /\ DOMAIN now = DOMAIN before => now = before
       /\ convObs.outcome.value.referenceValue = convObs.seen.value.referenceValue

\* the four series were computed in METHOD_IDS order and then in another
\* order
C23_Witness ==
  /\ ConvSameFunction
  /\ convObs.seen.input.methodIds = METHOD_IDS
  /\ convObs.input.methodIds = <<"random", "chebyshev", "equallySpaced", "gaussLegendre">>
  /\ Len(convObs.outcome.value.data[4].points) = 10

(***************************************************************************)
(* validateFunctionOnInterval sample by sample (SpecValidate): a step is   *)
(* one round of the sampling loop; the rules and the boundary points       *)
(* follow the last round.                                                  *)
(***************************************************************************)
ValInput(f, a, b) == [f |-> f, a |-> a, b |-> b]

\* functions that are finite, undefined, infinite or throw on a part of the
\* interval, at a sample, between two samples or next to a bound
ValInputs ==
  {ValInput("x", 0, 1), ValInput("square", 2, 2), ValInput("recip", 0, 1),
   ValInput("recip", -1, 1), ValInput("recip", -1, 2), ValInput("spike", 0, 1),
   ValInput("nan", 0, 1), ValInput("ratio", 0, 1), ValInput("throws", 0, 1),
   ValInput("throwsNeg", -1, 1), ValInput("throwsNeg", -1, 20),
   ValInput("throwsAtZero", -1, 1), ValInput("throwsAtZero", 0, 1),
   ValInput("throwsTiny", 0, 1), ValInput("domain", -1, 1), ValInput("domain", -1, 19)}

InitValidate == LibraryIdle /\ UiIdle

\* a caller calls validateFunctionOnInterval(f, a, b)
ValCall(inp) ==
  /\ valObs.phase = "idle"
  /\ valObs' = [phase |-> "sampling", input |-> inp, i |-> 0, values |-> <<>>,
                nanCount |-> 0, infCount |-> 0, threw |-> {}]
  /\ UNCHANGED NotValVars

\* one round of the sampling loop
ValSample ==
  /\ valObs.phase = "sampling"
  /\ valObs.i <= numSamples
  /\ \E round \in {Op("SampleRound", <<valObs.input.f, Num(valObs.input.a),
                                       Num(valObs.input.b), valObs.i>>)} :
       valObs' = [valObs EXCEPT
                    !.i = @ + 1,
                    !.values = Append(@, round.y),
                    !.nanCount = IF isNaN(round.y) THEN @ + 1 ELSE @,
                    !.infCount = IF ~isNaN(round.y) /\ ~isFinite(round.y) THEN @ + 1 ELSE @,
                    !.threw = IF round.threw THEN @ \cup {valObs.i} ELSE @]
  /\ UNCHANGED NotValVars

\* the rest of the call: the rules on the samples in their order, then the
\* boundary points
ValFinish ==
  /\ valObs.phase = "sampling"
  /\ valObs.i > numSamples
  /\ \E result \in {Op("ValidateSamples", <<valObs.input.f, Num(valObs.input.a),
                                            Num(valObs.input.b), valObs.values,
                                            valObs.nanCount, valObs.infCount>>)} :
       valObs' = [phase |-> "done", input |-> valObs.input, values |-> valObs.values,
                  nanCount |-> valObs.nanCount, infCount |-> valObs.infCount,
                  threw |-> valObs.threw, outcome |-> Return(result)]
  /\ UNCHANGED NotValVars

\* the caller takes the ValidationResult
ValReturn ==
  /\ valObs.phase = "done"
  /\ valObs' = [phase |-> "idle"]
  /\ UNCHANGED NotValVars

NextValidate ==
  \/ \E inp \in ValInputs : ValCall(inp)
  \/ ValSample
  \/ ValFinish
  \/ ValReturn

SpecValidate == InitValidate /\ [][NextValidate]_vars

(***************************************************************************)
(* Properties of validateFunctionOnInterval (SpecValidate).                *)
(***************************************************************************)
ValDone == valObs.phase = "done"

\* f throws at one of the four boundary points of the call's interval
ValBoundaryThrows ==
  \E i \in 1..4 :
    ApplyF(valObs.input.f,
           BoundaryPoints(FInt(valObs.input.a), FInt(valObs.input.b))[i]).type = "throw"

\* one of the rules on the samples fires: more than 10% of the 201 samples
\* are NaN, a sample is infinite, or a pair of adjacent samples fails the scan
ValSampleRuleFires ==
  \/ 10 * valObs.nanCount > numSamples + 1
  \/ valObs.infCount > 0
  \/ ScanPairs(valObs.values) /= "continue"

\* the call returns a ValidationResult, with a non-empty message when valid
\* is false and no message when valid is true; a sample at which f threw is
\* NaN in values and counted in nanCount
ValResultShape ==
  ValDone =>
    /\ valObs.outcome.type = "return"
    /\ valObs.outcome.value.valid \in BOOLEAN
    /\ ~valObs.outcome.value.valid =>
         /\ DOMAIN valObs.outcome.value = {"valid", "message"}
         /\ valObs.outcome.value.message.text /= ""
    /\ valObs.outcome.value.valid => DOMAIN valObs.outcome.value = {"valid"}
    /\ Len(valObs.values) = numSamples + 1
    /\ \A i \in valObs.threw : isNaN(valObs.values[i + 1])
    /\ valObs.nanCount = Cardinality({i \in 1..Len(valObs.values) : isNaN(valObs.values[i])})

\* C20 as stated: validateFunctionOnInterval never throws; a sample at which
\* f throws is counted as NaN; whenever f throws at one of the 4 boundary
\* points the result is valid = false with a boundary message; valid = false
\* comes with a non-empty message and valid = true with none.
C20_BoundaryThrowMessage ==
  /\ ValResultShape
  /\ (ValDone /\ ValBoundaryThrows) =>
       /\ ~valObs.outcome.value.valid
       /\ valObs.outcome.value.message.text \in BoundaryTexts

\* C20, amended: validateFunctionOnInterval never throws; a sample at which
\* f throws is counted as NaN; whenever f throws at one of the 4 boundary
\* points the result is valid = false, with a boundary message when none of
\* the rules on the samples fires (they are applied first, and a bound at
\* which f throws is also a sample at which it throws); valid = false comes
\* with a non-empty message and valid = true with none.
C20_NeverThrows ==
  /\ ValResultShape
  /\ (ValDone /\ ValBoundaryThrows) =>
       /\ ~valObs.outcome.value.valid
       /\ ~ValSampleRuleFires => valObs.outcome.value.message.text \in BoundaryTexts
       /\ ValSampleRuleFires => valObs.outcome.value.message.text \notin BoundaryTexts

\* f threw at the ten samples below 0 and throws at the lower bound: they
\* were counted as NaN and the result is the boundary failure
C20_Witness ==
  /\ ValDone
  /\ valObs.input = ValInput("throwsNeg", -1, 20)
  /\ valObs.threw = 0..9
  /\ valObs.nanCount = 10
  /\ ValBoundaryThrows
  /\ valObs.outcome.value = Invalid(BoundaryThrowText, FInt(-1), FInt(20))

\* the number of samples that are NaN
ValNaNs == Cardinality({i \in 1..Len(valObs.values) : isNaN(valObs.values[i])})

\* a sample is +Infinity or -Infinity
ValHasInfinite == \E i \in 1..Len(valObs.values) : valObs.values[i].k = "inf"

\* the pair of adjacent samples fails one of the two tests of the claim
ValBadPair(prev, curr) ==
  \/ (prev.s /= curr.s /\ FGt(FAbs(prev), FInt(50)) /\ FGt(FAbs(curr), FInt(50)))
  \/ /\ FGt(FAbs(prev), FInt(1)) /\ FGt(FAbs(curr), FInt(1))
     /\ \/ FGt(FDiv(FAbs(prev), FAbs(curr)), FInt(1000000))
        \/ FGt(FDiv(FAbs(curr), FAbs(prev)), FInt(1000000))

\* some pair of adjacent samples that are both finite fails a test
ValHasBadPair ==
  \E i \in 1..(Len(valObs.values) - 1) :
    /\ isFinite(valObs.values[i]) /\ isFinite(valObs.values[i + 1])
    /\ ValBadPair(valObs.values[i], valObs.values[i + 1])

\* f returns a finite value at each of the four boundary points
ValBoundaryFinite ==
  \A i \in 1..4 :
    LET y == ApplyF(valObs.input.f,
                    BoundaryPoints(FInt(valObs.input.a), FInt(valObs.input.b))[i])
    IN y.type = "return" /\ isFinite(y.value)

\* C2: validateFunctionOnInterval returns valid = true exactly when at most
\* 10% of the 201 samples are NaN (a sample where f throws is NaN), no
\* sample is infinite, no pair of adjacent finite samples has opposite
\* signs with both magnitudes above 50 or both magnitudes above 1 with a
\* ratio above 1e6, and f is finite and does not throw at a, a+eps, b-eps
\* and b.
C2_ValidIff ==
  ValDone =>
    /\ Len(valObs.values) = numSamples + 1
    /\ \A i \in valObs.threw : isNaN(valObs.values[i + 1])
    /\ valObs.outcome.value.valid
         <=> /\ 10 * ValNaNs <= numSamples + 1
             /\ ~ValHasInfinite
             /\ ~ValHasBadPair
             /\ ValBoundaryFinite

\* f throws at the sample x = 0 only: one NaN among the samples, its two
\* pairs skipped, and the result is valid
C2_Witness ==
  /\ ValDone
  /\ valObs.input = ValInput("throwsAtZero", -1, 1)
  /\ valObs.threw = {100}
  /\ ValNaNs = 1
  /\ valObs.outcome.value.valid

\* C3: the first rule that fires decides the message: more than 10% NaN
\* gives the 'undefined on a large portion' message even if a sample is
\* infinite; at most 10% NaN and an infinite sample gives the 'asymptotes
\* or singularities' message whatever the pairs and the boundary points
\* are; a boundary message is given only when no rule on the samples
\* fires; 1/x on [-1, 1], whose sample 100 is at x = 0, is rejected with
\* the 'asymptotes or singularities' message.
C3_RuleOrder ==
  ValDone =>
    LET result == valObs.outcome.value
        a == FInt(valObs.input.a)
        b == FInt(valObs.input.b)
    IN /\ 10 * ValNaNs > numSamples + 1 => result = Invalid(LargePortionText, a, b)
       /\ (10 * ValNaNs <= numSamples + 1 /\ ValHasInfinite)
            => result = Invalid(AsymptotesText, a, b)
       /\ (~result.valid /\ result.message.text \in BoundaryTexts)
            => /\ 10 * ValNaNs <= numSamples + 1
               /\ ~ValHasInfinite
               /\ ~ValHasBadPair
       /\ valObs.input = ValInput("recip", -1, 1)
            => /\ valObs.values[101] = FInf(0)
               /\ result = Invalid(AsymptotesText, a, b)

\* half of the samples are NaN and one is infinite: the message is the one
\* of the first rule
C3_Witness ==
  /\ ValDone
  /\ valObs.input = ValInput("domain", -1, 1)
  /\ ValHasInfinite
  /\ 10 * ValNaNs > numSamples + 1
  /\ valObs.outcome.value.message.text = LargePortionText

(***************************************************************************)
(* Properties of the Chebyshev and Random generators (SpecGen).            *)
(***************************************************************************)
\* the pairs (cos(theta_k), w_k) of degree n in the order k = 1..n in which
\* the two loops compute them, before the sort and the reversal
ChebyshevPreSort ==
  Tuple([n \in 1..10 |->
    Tuple([k \in 1..n |->
      [node |-> MathCos(ChebyshevTheta(k, n)),
       weight |-> FMul(FDiv(FInt(2), FInt(n)),
                       FejerInner(ChebyshevTheta(k, n), (n - 1) \div 2))]])])

GenReturned(methodId) ==
  /\ genLast.type = "call"
  /\ genLast.methodId = methodId
  /\ genLast.outcome.type = "return"

\* C24: for every n in 1..10 the Chebyshev generator returns at position i
\* the node cos(theta_k) and the Fejer weight of theta_k of the pre-sort
\* index k = n+1-i, the nodes ascend strictly, so the returned (node, weight)
\* pairs are the pre-sort pairs in reverse order.
C24_PairsKept ==
  GenReturned("chebyshev") =>
    LET n == genLast.args[1]
        set == genLast.outcome.value
    IN /\ Len(set.nodes) = n /\ Len(set.weights) = n
       /\ \A i \in 1..n :
            /\ set.nodes[i] = ChebyshevPreSort[n][n + 1 - i].node
            /\ set.weights[i] = ChebyshevPreSort[n][n + 1 - i].weight
       /\ \A i \in 1..(n - 1) : FLt(set.nodes[i], set.nodes[i + 1])

\* the Chebyshev generator returned ten pairs, whose weights differ between
\* the ends and the middle
C24_Witness ==
  /\ GenReturned("chebyshev")
  /\ genLast.args = <<10>>
  /\ FLt(genLast.outcome.value.nodes[1], FZero(0))
  /\ FLt(genLast.outcome.value.weights[1], genLast.outcome.value.weights[5])

\* C25: every Random node is -1 + 2u for u an unsigned 32-bit integer
\* divided by 2^32, so lies in [-1, 1); the nodes ascend and every weight
\* equals 2/n.
C25_RandomInRange ==
  GenReturned("random") =>
    LET n == genLast.args[1]
        set == genLast.outcome.value
        two52 == FMul(FInt(67108864), FInt(67108864))
    IN /\ Len(set.nodes) = n /\ Len(set.weights) = n
       /\ \A i \in 1..n :
            LET scaled == FMul(FAdd(set.nodes[i], FInt(1)), FInt(1073741824) (.) FInt(2))
            IN /\ FGe(set.nodes[i], FInt(-1))
               /\ FLt(set.nodes[i], FInt(1))
               /\ FSub(FAdd(scaled, two52), two52) = scaled
               /\ set.weights[i] = FDiv(FInt(2), FInt(n))
       /\ \A i \in 1..(n - 1) : FLe(set.nodes[i], set.nodes[i + 1])

\* the Random generator returned ten nodes for a seed passed to it, not all
\* on one side of 0
C25_Witness ==
  /\ GenReturned("random")
  /\ genLast.args = <<10, 9739>>
  /\ FLt(genLast.outcome.value.nodes[1], FZero(0))
  /\ FGt(genLast.outcome.value.nodes[10], FZero(0))

(***************************************************************************)
(* Properties of all four generators (SpecGen).                            *)
(***************************************************************************)
\* C4: a generator called with n in 1..10 returns exactly n nodes and n
\* weights; called with n < 1 or n > 10 it throws the out-of-range error
\* and returns no set.
C4_DegreeContract ==
  genLast.type = "call" =>
    LET n == genLast.args[1]
    IN IF n >= 1 /\ n <= 10
       THEN /\ genLast.outcome.type = "return"
            /\ Len(genLast.outcome.value.nodes) = n
            /\ Len(genLast.outcome.value.weights) = n
       ELSE genLast.outcome = Throw(DegreeError, n)

\* the EquallySpaced generator threw for n = 0
C4_Witness ==
  /\ genLast.type = "call"
  /\ genLast.methodId = "equallySpaced"
  /\ genLast.args = <<0>>
  /\ genLast.outcome.type = "throw"

\* C5: for every method, every n in 1..10 and every seed, the weights the
\* generator returns sum to 2 within 1e-9; for EquallySpaced and Random,
\* whose weights sum to 2 in exact arithmetic, within 1e-15.
C5_WeightsSumToTwo ==
  (genLast.type = "call" /\ genLast.outcome.type = "return") =>
    LET sum == SumInOrder(genLast.outcome.value.weights)
    IN /\ Within(sum, FInt(2), DecLit(0, <<1>>, 9))
       /\ genLast.methodId \in {"equallySpaced", "random"}
            => Within(sum, FInt(2), DecLit(0, <<1>>, 15))

\* the Chebyshev generator returned ten weights, not all equal
C5_Witness ==
  /\ GenReturned("chebyshev")
  /\ genLast.args = <<10>>
  /\ Len(genLast.outcome.value.weights) = 10
  /\ genLast.outcome.value.weights[1] /= genLast.outcome.value.weights[2]

\* C10: the nodes of GaussLegendre for n in 1..10 and of EquallySpaced for
\* n in 2..10 ascend, and node[i] = -node[n+1-i] within 1e-9 for each i.
C10_NodesSymmetric ==
  (\/ GenReturned("gaussLegendre")
   \/ (GenReturned("equallySpaced") /\ genLast.args[1] >= 2)) =>
    LET n == genLast.args[1]
        nodes == genLast.outcome.value.nodes
    IN /\ \A i \in 1..(n - 1) : FLt(nodes[i], nodes[i + 1])
       /\ \A i \in 1..n : Within(nodes[i], FNeg(nodes[n + 1 - i]), DecLit(0, <<1>>, 9))

\* the EquallySpaced generator returned four nodes, the second of them
\* below 0
C10_Witness ==
  /\ GenReturned("equallySpaced")
  /\ genLast.args = <<4>>
  /\ FLt(genLast.outcome.value.nodes[2], FZero(0))
  /\ FGt(genLast.outcome.value.nodes[3], FZero(0))

(***************************************************************************)
(* toggleMethod and the renders of the hook (SpecToggle): calls of         *)
(* toggleMethod queue their updaters, a render runs the queue and makes    *)
(* the closure of the next calls.                                          *)
(***************************************************************************)
\* how many calls of toggleMethod one render can find queued
MaxPending == 2

\* the identifiers toggleMethod is called with
ToggleIds == {METHOD_IDS[i] : i \in 1..Len(METHOD_IDS)} \cup {"simpson"}

InitToggle ==
  /\ LibraryIdle /\ hook = NoCall /\ drag = NoCall
  /\ tog = [enabledMethods |-> METHOD_IDS, activeMethod |-> "gaussLegendre", pending |-> <<>>]

\* toggleMethod(methodId): setEnabledMethods(updater)
ToggleMethod(methodId) ==
  /\ Len(tog.pending) < MaxPending
  /\ tog' = [tog EXCEPT !.pending = Append(@, methodId)]
  /\ UNCHANGED NotTogVars

\* the render after the calls: the queued updaters run in order, with the
\* activeMethod of the previous render in their closure
ToggleRender ==
  /\ tog.pending /= <<>>
  /\ \E st \in {RunToggles([enabledMethods |-> tog.enabledMethods,
                            activeMethod |-> tog.activeMethod],
                           tog.pending, tog.activeMethod)} :
       tog' = [enabledMethods |-> st.enabledMethods, activeMethod |-> st.activeMethod,
               pending |-> <<>>]
  /\ UNCHANGED NotTogVars

NextToggle ==
  \/ \E methodId \in ToggleIds : ToggleMethod(methodId)
  \/ ToggleRender

SpecToggle == InitToggle /\ [][NextToggle]_vars

(***************************************************************************)
(* Properties of toggleMethod (SpecToggle).                                *)
(***************************************************************************)
TogEnabled == {tog.enabledMethods[i] : i \in 1..Len(tog.enabledMethods)}

\* C26: after any sequence of toggleMethod calls, with registered or
\* unregistered identifiers, enabledMethods is non-empty and lists
\* identifiers of METHOD_IDS without duplicates in METHOD_IDS order; toggling
\* the only enabled method leaves the list unchanged, and toggling one
\* method twice restores the list.
C26_ToggleKeepsOrder ==
  /\ [](/\ tog.enabledMethods /= <<>>
        /\ tog.enabledMethods = FilterIn(METHOD_IDS, TogEnabled)
        /\ \A m \in ToggleIds : \A c1 \in ToggleIds : \A c2 \in ToggleIds :
             LET once == ToggleUpdater(tog.enabledMethods, m, c1).next
             IN /\ tog.enabledMethods = <<m>> => once = tog.enabledMethods
                /\ ToggleUpdater(once, m, c2).next = tog.enabledMethods)
  /\ [][/\ tog.pending = <<tog.enabledMethods[1]>> /\ Len(tog.enabledMethods) = 1
             => tog'.enabledMethods = tog.enabledMethods
        /\ Len(tog.pending) = 2 /\ tog.pending[1] = tog.pending[2] /\ tog'.pending = <<>>
             => tog'.enabledMethods = tog.enabledMethods]_vars

\* one method is left enabled after three were toggled off and an
\* unregistered identifier was toggled
C26_Witness ==
  /\ tog.enabledMethods = <<"chebyshev">>
  /\ tog.pending = <<"chebyshev", "simpson">>

\* C27 as stated: after any sequence of toggleMethod calls, several of them
\* before one render included, activeMethod is one of enabledMethods.
C27_ActiveEnabled == tog.activeMethod \in TogEnabled

\* the active method was toggled off and the first remaining one is active
C27_Witness ==
  /\ tog.enabledMethods = <<"equallySpaced", "chebyshev", "random">>
  /\ tog.activeMethod = "equallySpaced"
  /\ tog.pending = <<>>

(***************************************************************************)
(* The Graph's sliders, timer and board (SpecDrag): drag events, the       *)
(* passing of time, timers that fire, and the effect's cleanup and re-run. *)
(***************************************************************************)
\* the time one step of the clock takes, the longest time since the last
\* drag that is told apart, and the number of timers started
TickMs == 50
MaxClock == 300
MaxTimers == 3

\* where the sliders are dragged to
SliderPositions ==
  [a |-> {Num(0), Num(1)},
   b |-> {Num(1), Op("DecLit", <<0, <<103>>, 2>>), Num(2)}]

\* the board is mounted with the sliders at the interval; no drag yet
InitDrag ==
  /\ LibraryIdle /\ tog = NoCall /\ hook = NoCall
  /\ \E handler \in BOOLEAN :
       drag = [board |-> "alive", ref |-> 0, timers |-> {}, nextId |-> 1, elapsed |-> 0,
               a |-> Num(0), b |-> Num(1), handler |-> handler, calls |-> 0,
               lastCall |-> NoCall]

\* a drag event of slider a or b: the slider moves and scheduleUpdate runs
DragSlider(which, x) ==
  /\ drag.board = "alive"
  /\ drag.nextId <= MaxTimers
  /\ drag' = [drag EXCEPT
                !.a = IF which = "a" THEN x ELSE @,
                !.b = IF which = "b" THEN x ELSE @,
                !.timers = Op("CancelTimer", <<@, drag.ref>>)
                             \cup {[id |-> drag.nextId, remaining |-> DebounceMs]},
                !.ref = drag.nextId,
                !.nextId = @ + 1,
                !.elapsed = 0,
                !.calls = 0]
  /\ UNCHANGED NotDragVars

\* TickMs pass
DragTick ==
  /\ drag.board /= "unmounted"
  /\ drag' = [drag EXCEPT
                !.elapsed = IF @ + TickMs > MaxClock THEN @ ELSE @ + TickMs,
                !.timers = {[t EXCEPT !.remaining = BigMax(0, @ - TickMs)] : t \in @}]
  /\ UNCHANGED NotDragVars

\* a timer whose time has passed runs its callback, at once or later
TimerFire(t) ==
  /\ t \in drag.timers
  /\ t.remaining = 0
  /\ \E accepts \in {Op("DragAccepts", <<drag.a, drag.b>>)} :
       drag' = IF accepts /\ drag.handler
               THEN [drag EXCEPT
                       !.timers = @ \ {t},
                       !.calls = @ + 1,
                       !.lastCall = [type |-> "call", newA |-> drag.a, newB |-> drag.b,
                                     waited |-> drag.elapsed, latest |-> t.id = drag.ref,
                                     board |-> drag.board]]
               ELSE [drag EXCEPT !.timers = @ \ {t}]
  /\ UNCHANGED NotDragVars

\* the effect's cleanup, before the effect runs again or at unmount
BoardCleanup(unmount) ==
  /\ drag.board = "alive"
  /\ drag' = [drag EXCEPT
                !.timers = Op("CancelTimer", <<@, drag.ref>>),
                !.board = IF unmount THEN "unmounted" ELSE "freed"]
  /\ UNCHANGED NotDragVars

\* the effect runs again and makes a new board
BoardCreate ==
  /\ drag.board = "freed"
  /\ drag' = [drag EXCEPT !.board = "alive"]
  /\ UNCHANGED NotDragVars

NextDrag ==
  \/ \E x \in SliderPositions.a : DragSlider("a", x)
  \/ \E x \in SliderPositions.b : DragSlider("b", x)
  \/ DragTick
  \/ \E t \in drag.timers : TimerFire(t)
  \/ \E unmount \in BOOLEAN : BoardCleanup(unmount)
  \/ BoardCreate

SpecDrag == InitDrag /\ [][NextDrag]_vars

(***************************************************************************)
(* Properties of the debounced drag (SpecDrag).                            *)
(***************************************************************************)
\* C30: every drag event cancels the pending timer and starts one of 150 ms,
\* so at most one timer is pending, at most one onIntervalChange call is
\* made after a burst of drags, by the timer of the last drag and not
\* before 150 ms after it; the call is made only with newA < newB - 0.05,
\* so never with a >= b; the cleanup of the effect cancels a pending timer,
\* so no call is made once the board is freed.
C30_Debounced ==
  /\ Cardinality(drag.timers) <= 1
  /\ \A t \in drag.timers : t.id = drag.ref /\ t.remaining + drag.elapsed >= DebounceMs
  /\ drag.board /= "alive" => drag.timers = {}
  /\ drag.calls <= 1
  /\ drag.lastCall /= NoCall =>
       /\ drag.lastCall.waited >= DebounceMs
       /\ drag.lastCall.latest
       /\ drag.lastCall.board = "alive"
       /\ FLt(drag.lastCall.newA, FSub(drag.lastCall.newB, DecLit(0, <<5>>, 2)))
       /\ FLt(drag.lastCall.newA, drag.lastCall.newB)

\* after three drags one call was made, with the interval [1, 2], and the
\* board is alive
C30_Witness ==
  /\ drag.nextId = 4
  /\ drag.calls = 1
  /\ drag.lastCall /= NoCall
  /\ drag.lastCall.newA = FInt(1) /\ drag.lastCall.newB = FInt(2)
  /\ drag.timers = {}
  /\ drag.board = "alive"

(***************************************************************************)
(* The hooks and their setters (SpecHook): a step is one call of a setter  *)
(* and the render that follows it.                                         *)
(***************************************************************************)
CoreNames ==
  {"expression", "degree", "intervalA", "intervalB", "enabledMethods", "randomSeed",
   "activeMethod"}

HookCore == [name \in CoreNames |-> hook[name]]

\* the arguments the setters are called with
HookExpressions == {"x", "1/x", "x +", ""}
DegreeInputs ==
  {<<"1", "1">>, <<"0">>, <<"-", "3">>, <<"N", "a", "N">>, <<"3", ".", "7">>,
   <<" ", "a", "b", "c">>}
IntervalInputs ==
  [a |-> {<<"0">>, <<"1">>, <<"a", "b", "c">>},
   b |-> {<<"1">>, <<"2", ".", "0">>, <<>>}]
HookToggleIds == {"gaussLegendre", "random", "simpson"}
SeedInputs == {7}
\* values Math.random() returns
MathRandomValues == {Op("DecLit", <<0, <<d[1]>>, d[2]>>) : d \in {<<415, 3>>, <<9999, 4>>}}

\* the call of a setter: the values of useState after it, fresh naming those
\* that are new arrays, and the render
Update(setter, input, core, fresh) ==
  /\ \E core1 \in {core} :
       hook' \in Op("Render",
                     <<core1 @@ [lastSetter |-> setter, lastInput |-> input,
                                 seedBefore |-> hook.randomSeed],
                       {name \in CoreNames : core1[name] /= hook[name]} \cup fresh, hook>>)
  /\ UNCHANGED NotHookVars

\* the first render, with the initial values of useState
InitHook ==
  /\ LibraryIdle /\ tog = NoCall /\ drag = NoCall
  /\ \E interval \in {[k \in 1..2 |-> Num(k - 1)]} :
       hook \in Op("Render",
                   <<[expression |-> "x", degree |-> 4, intervalA |-> interval[1],
                      intervalB |-> interval[2], enabledMethods |-> METHOD_IDS,
                      randomSeed |-> 42, activeMethod |-> "gaussLegendre",
                      lastSetter |-> "mount", lastInput |-> <<>>, seedBefore |-> 42],
                     CoreNames, NoCall>>)

SetExpression(expression) ==
  Update("setExpression", <<>>, [HookCore EXCEPT !.expression = expression], {})

SetDegree(text) ==
  Update("setDegree", text, [HookCore EXCEPT !.degree = Op("updateDegree", <<text>>)], {})

SetIntervalA(text) ==
  \E val \in {Op("parseFloat", <<text>>)} :
    Update("setIntervalA", <<>>,
           IF isNaN(val) THEN HookCore ELSE [HookCore EXCEPT !.intervalA = val], {})

SetIntervalB(text) ==
  \E val \in {Op("parseFloat", <<text>>)} :
    Update("setIntervalB", <<>>,
           IF isNaN(val) THEN HookCore ELSE [HookCore EXCEPT !.intervalB = val], {})

HookToggleMethod(methodId) ==
  \E u \in {ToggleUpdater(hook.enabledMethods, methodId, hook.activeMethod)} :
    Update("toggleMethod", <<>>,
           [HookCore EXCEPT !.enabledMethods = u.next,
                            !.activeMethod = IF u.setActiveMethod = <<>> THEN @
                                             ELSE u.setActiveMethod[1]],
           IF Includes(hook.enabledMethods, methodId) /\ Len(hook.enabledMethods) <= 1
           THEN {} ELSE {"enabledMethods"})

SetRandomSeed(seed) ==
  Update("setRandomSeed", <<>>, [HookCore EXCEPT !.randomSeed = seed], {})

ReshuffleRandom(random) ==
  Update("reshuffleRandom", <<>>,
         [HookCore EXCEPT !.randomSeed = Op("ReshuffledSeed", <<random>>)], {})

NextHook ==
  \/ \E expression \in HookExpressions : SetExpression(expression)
  \/ \E text \in DegreeInputs : SetDegree(text)
  \/ \E text \in IntervalInputs.a : SetIntervalA(text)
  \/ \E text \in IntervalInputs.b : SetIntervalB(text)
  \/ \E methodId \in HookToggleIds : HookToggleMethod(methodId)
  \/ \E seed \in SeedInputs : SetRandomSeed(seed)
  \/ \E random \in MathRandomValues : ReshuffleRandom(random)

SpecHook == InitHook /\ [][NextHook]_vars

(***************************************************************************)
(* Properties of the hooks (SpecHook).                                     *)
(***************************************************************************)
\* the pair (function, interval) of the state is valid
HookValidPair ==
  /\ HookUsable(hook.parsedFunction, hook.intervalA, hook.intervalB)
  /\ hook.functionValidation.valid

\* the Domain Validator's result for the function and the interval of the
\* state is invalid
HookInvalidPair ==
  /\ parseFunction(hook.expression).success
  /\ FLt(hook.intervalA, hook.intervalB)
  /\ ~HookValidate(parseFunction(hook.expression).fn, hook.intervalA, hook.intervalB).valid

\* C1: in every state reached by calls of the setters, if the validator's
\* result for the current function and interval is invalid then allResults,
\* referenceValue and convergenceData are null and isValid is false; they
\* are non-null only when the expression parsed, intervalA < intervalB and
\* the validation result is valid.
C1_ValidatorGates ==
  /\ HookInvalidPair =>
       /\ ~hook.functionValidation.valid
       /\ hook.allResults = Null
       /\ hook.referenceValue = Null
       /\ hook.convergenceData = Null
       /\ ~IsValid(hook)
  /\ (hook.allResults /= Null \/ hook.referenceValue /= Null \/ hook.convergenceData /= Null)
       => /\ parseFunction(hook.expression).success
          /\ FLt(hook.intervalA, hook.intervalB)
          /\ HookValidate(parseFunction(hook.expression).fn, hook.intervalA,
                          hook.intervalB).valid

\* the expression was changed to 1/x on an interval that begins at 0, after
\* a render with results
C1_Witness ==
  /\ HookInvalidPair
  /\ hook.expression = "1/x"
  /\ hook.lastSetter = "setExpression"
  /\ hook.changed = {"expression"}
  /\ hook.intervalA = FInt(0)
  /\ hook.allResults = Null

\* C21 as stated: computeReferenceValue is executed once for each valid
\* (function, interval) pair: no render executes it twice, and a step that
\* changes only the degree, the enabled methods or the random seed does not
\* execute it.
C21_ReferenceOnce ==
  /\ hook.referenceRuns <= 1
  /\ hook.changed \subseteq {"degree", "enabledMethods", "randomSeed", "activeMethod"}
       => hook.referenceRuns = 0

\* the reference value was computed for a new valid interval
C21_Witness ==
  /\ hook.lastSetter = "setIntervalB"
  /\ hook.changed = {"intervalB"}
  /\ HookValidPair
  /\ hook.referenceRuns >= 1
  /\ hook.referenceValue = Called("computeReferenceValue", <<"x", FInt(0), FInt(2)>>)

\* C22: after any sequence of calls of the setters, functionValidation,
\* allResults, referenceValue and convergenceData, and the results of
\* useQuadrature, are what a computation from scratch on the current
\* expression, interval, degree, enabled methods and seed gives.
C22_NeverStale ==
  LET parsed == parseFunction(hook.expression)
      validation == ComputeValidation(parsed, hook.intervalA, hook.intervalB)
  IN /\ hook.parsedFunction = parsed
     /\ hook.functionValidation = validation
     /\ hook.allResults = ComputeAllResults(parsed, hook.intervalA, hook.intervalB,
                                            hook.degree, hook.enabledMethods,
                                            hook.randomSeed, validation)
     /\ hook.referenceValue = ComputeReference(parsed, hook.intervalA, hook.intervalB,
                                               validation)
     /\ hook.convergenceData = ComputeConvergence(parsed, hook.intervalA, hook.intervalB,
                                                  hook.enabledMethods, hook.randomSeed,
                                                  validation)
     /\ hook.results = ComputeResults(parsed, hook.intervalA, hook.intervalB, hook.degree,
                                      hook.expression)

\* only the seed changed, and the Random method's result has the new seed
C22_Witness ==
  /\ hook.changed = {"randomSeed"}
  /\ hook.randomSeed = 100
  /\ hook.allResults /= Null
  /\ \E i \in 1..Len(hook.enabledMethods) :
       /\ hook.enabledMethods[i] = "random"
       /\ hook.allResults.results[i].result.args[6] = Options("number", 100)

\* C28: after any sequence of setDegree calls with any input the degree is
\* an integer in 1..10, and so is every degree a generator is called with
\* by allResults, convergenceData and the error estimate.
C28_DegreeClamped ==
  /\ hook.degree \in 1..10
  /\ GeneratorDegrees(hook) \subseteq 1..10

\* setDegree was called with 11 and the degree is 10, for which no error
\* estimate is made
C28_Witness ==
  /\ hook.lastSetter = "setDegree"
  /\ hook.lastInput = <<"1", "1">>
  /\ hook.degree = 10
  /\ hook.results.type = "value"
  /\ hook.results.errorEstimate = Null
  /\ hook.allResults /= Null

\* C29 as stated: the random seed after reshuffleRandom differs from the
\* seed before it.
C29_ReshuffleChanges ==
  hook.lastSetter = "reshuffleRandom" => hook.randomSeed /= hook.seedBefore

\* reshuffleRandom replaced the seed 42 by 100
C29_Witness ==
  /\ hook.lastSetter = "reshuffleRandom"
  /\ hook.seedBefore = 42
  /\ hook.randomSeed = 100
  /\ hook.changed = {"randomSeed"}

=============================================================================
